---- MODULE Spec2Model ----
(***************************************************************************)
(* Transaction Security Core of the custody service: the TxRequest state   *)
(* machine (app/services/orchestrator.py), the interactive MPC signing     *)
(* session and its finalizer (app/api/mpc_websocket.py), the chain         *)
(* listener (app/services/chain_listener.py), signing permits              *)
(* (app/services/mpc_coordinator.py) and the hash-chained audit log        *)
(* (app/services/audit.py, app/models/audit.py).                           *)
(***************************************************************************)
EXTENDS Naturals, Integers, Sequences, FiniteSets, TLC

(***************************************************************************)
(* Bounds of the model                                                     *)
(***************************************************************************)
\* largest approval_count a policy rule carries in the model
MaxApprovalCount == 2

\* settings.confirmation_blocks
ConfirmationBlocks == 3

\* TxRequest.id values (uuid4 strings) and the users of the service
Tx == {"tx-1", "tx-2"}
\* the request whose whole lifecycle is followed; the specifications of the
\* create calls use every id
Followed == {"tx-1"}
Users == {"alice", "bob", "carol"}
\* the users that submit requests; every user may vote
Creators == {"alice"}
\* MPCSession.session_id values (uuid4 strings)
Sessions == {"ws-1"}
\* concurrent HTTP calls, each with its own database session
Calls == {"call-1", "call-2"}
\* database sessions that append audit events concurrently
AuditSessions == {"a", "b"}
\* Deposit.id values (uuid4 strings)
Deposits == {"dep-1"}
\* amounts in wei a request or a deposit carries
Amounts == {1, 2}

None == "NONE"
\* a hash or raw transaction column that is NULL
NoHash == <<>>
\* TxRequest.nonce while it is NULL
NoNonce == -1

(***************************************************************************)
(* TxStatus and the legal-successor table                                  *)
(***************************************************************************)
TxStatus ==
    {"SUBMITTED", "POLICY_EVAL_PENDING", "POLICY_BLOCKED", "KYT_PENDING",
     "KYT_SKIPPED", "KYT_BLOCKED", "KYT_REVIEW", "APPROVAL_PENDING",
     "APPROVAL_SKIPPED", "REJECTED", "SIGN_PENDING", "SIGNED", "FAILED_SIGN",
     "BROADCAST_PENDING", "BROADCASTED", "FAILED_BROADCAST", "CONFIRMING",
     "CONFIRMED", "FINALIZED"}

VALID_TRANSITIONS ==
    [s \in TxStatus |->
        CASE s = "SUBMITTED"           -> {"POLICY_EVAL_PENDING"}
          [] s = "POLICY_EVAL_PENDING" -> {"POLICY_BLOCKED", "KYT_PENDING", "KYT_SKIPPED"}
          [] s = "POLICY_BLOCKED"      -> {}
          [] s = "KYT_PENDING"         -> {"KYT_BLOCKED", "KYT_REVIEW",
                                           "APPROVAL_PENDING", "APPROVAL_SKIPPED"}
          [] s = "KYT_SKIPPED"         -> {"APPROVAL_PENDING", "APPROVAL_SKIPPED"}
          [] s = "KYT_BLOCKED"         -> {}
          [] s = "KYT_REVIEW"          -> {"KYT_BLOCKED", "APPROVAL_PENDING",
                                           "APPROVAL_SKIPPED"}
          [] s = "APPROVAL_PENDING"    -> {"REJECTED", "SIGN_PENDING"}
          [] s = "APPROVAL_SKIPPED"    -> {"SIGN_PENDING"}
          [] s = "REJECTED"            -> {}
          [] s = "SIGN_PENDING"        -> {"SIGNED", "FAILED_SIGN"}
          [] s = "SIGNED"              -> {"BROADCAST_PENDING"}
          [] s = "FAILED_SIGN"         -> {}
          [] s = "BROADCAST_PENDING"   -> {"BROADCASTED", "FAILED_BROADCAST"}
          [] s = "BROADCASTED"         -> {"CONFIRMING"}
          [] s = "FAILED_BROADCAST"    -> {"BROADCAST_PENDING"}
          [] s = "CONFIRMING"          -> {"CONFIRMED"}
          [] s = "CONFIRMED"           -> {"FINALIZED"}
          [] s = "FINALIZED"           -> {}]

\* TxRequest.can_transition_to: VALID_TRANSITIONS.get(self.status, [])
can_transition_to(row, new_status) ==
    IF row.status \in TxStatus
        THEN new_status \in VALID_TRANSITIONS[row.status]
        ELSE FALSE

VARIABLES
    tx,          \* tx_requests table: Tx -> row (status None: no such row)
    approvals,   \* approvals table: set of [tx, user, decision]
    permits,     \* signing_permits table: Tx -> permit row
    events,      \* audit events caused by each request, in append order
    moves,       \* every (old, new) status write made to each request
    refused,     \* every (old, new) transition the guarded primitive refused
    signatures,  \* every signature produced: [tx, path, permit, msg, by]
    sessions,    \* ConnectionManager.sessions: Sessions -> MPCSession
    calls,       \* HTTP calls in flight: each one's position and session
    deposits,    \* deposits table: Deposits -> row (status None: no such row)
    broadcasts,  \* transactions the node accepted: [sender, nonce, raw]
    group_members,  \* group_members table: set of <<group, user>>
    default_group,  \* the group with is_default (None: there is none)
    policy_rules,   \* policy_rules of the active policy set, in insertion order
    evaluations,    \* the last PolicyEngineV2.evaluate call and what it wrote
    daily_volume,   \* daily_volumes table, today's row of each wallet
    wallet_status,  \* wallets table: status of the wallet of each custody backend
    settings,       \* Settings: bitok_enabled, bitok_fallback_on_error
    screening,      \* the last KYTService.evaluate_outbound call of each request
    listener,       \* ChainListener: _running, _last_processed_block, position
    chain,          \* the node: the blocks mined after block 0, in order
    inbound,        \* deposits table: the rows the listener inserted, in order
    permit_check,   \* a signing_permits row in full, how it was altered, the last validation
    alog,        \* audit_events table: the committed rows, in commit order
    asess,       \* database sessions appending audit events: position, reads
    tamper,      \* the one out-of-band modification made to an audit row
    vrep         \* the last verify_chain report

vars == <<tx, approvals, permits, events, moves, refused, signatures,
          sessions, calls, deposits, broadcasts, group_members,
          default_group, policy_rules, evaluations, daily_volume,
          wallet_status, settings, screening, listener, chain, inbound,
          permit_check, alog, asess, tamper, vrep>>

(***************************************************************************)
(* Rows                                                                    *)
(***************************************************************************)
CustodyBackend == {"DEV_SIGNER", "MPC_TECDSA"}

\* TxRequest.policy_result while it is NULL
NoPolicyResult ==
    [matched |-> None, decision |-> None, allowed |-> FALSE,
     kyt_required |-> FALSE, approval_required |-> FALSE, approval_count |-> 0]

\* a TxRequest row before it is inserted (column defaults of the model class)
NoRow ==
    [status |-> None, created_by |-> None, custody |-> None,
     policy_result |-> NoPolicyResult, requires_approval |-> FALSE,
     required_approvals |-> 0, kyt_result |-> None, kyt_case |-> None,
     signed_tx |-> NoHash, tx_hash |-> NoHash, confirmations |-> 0,
     updated_at |-> 0, idempotency_key |-> None, amount |-> 0,
     nonce |-> NoNonce]

\* keccak(text = "{tx.id}:{tx.to_address}:{tx.amount}"), the hash a permit carries
CanonicalHash(t) == <<"keccak", "id:to:amount", t>>
\* hash of the unsigned Ethereum transaction, the message the signer signs
SigningHash(t) == <<"keccak", "unsigned_tx", t>>

\* a signing_permits row that was never inserted
NoPermit ==
    [issued |-> FALSE, tx_hash |-> NoHash, is_used |-> FALSE, used_at |-> None,
     is_revoked |-> FALSE, expired |-> FALSE, hmac_ok |-> FALSE]

\* MPCCoordinator.issue_signing_permit: the permit row as issued
issue_signing_permit(tx_hash) ==
    [issued |-> TRUE, tx_hash |-> tx_hash, is_used |-> FALSE,
     used_at |-> None, is_revoked |-> FALSE, expired |-> FALSE,
     hmac_ok |-> TRUE]

\* MPCCoordinator.validate_signing_permit
validate_signing_permit(permit, tx_hash) ==
    /\ ~permit.is_used
    /\ ~permit.is_revoked
    /\ ~permit.expired
    /\ permit.tx_hash = tx_hash
    /\ permit.hmac_ok

\* an audit event of one request: type and, for status changes, the payload
Event(type) == [type |-> type, old |-> None, new |-> None]
StatusChanged(old, new) == [type |-> "TX_STATUS_CHANGED", old |-> old, new |-> new]

\* what one handler works on: the request row, its events, its permit and
\* the records kept about it
Ctx(t) ==
    [row |-> tx[t], ev |-> events[t], moves |-> moves[t],
     refused |-> refused[t], permit |-> permits[t], sigs |-> {},
     sent |-> {}, by |-> "api"]

\* AuditService.log_event as seen from one request: the event is appended
log(c, type) == [c EXCEPT !.ev = Append(@, Event(type))]

(***************************************************************************)
(* TxOrchestrator                                                          *)
(***************************************************************************)
\* the assignment and the audit event of _transition_status, without its guard
transition_status_unguarded(c, new_status) ==
    [c EXCEPT !.row.status = new_status,
              !.row.updated_at = @ + 1,
              !.ev = Append(@, StatusChanged(c.row.status, new_status)),
              !.moves = @ \cup {<<c.row.status, new_status>>}]

\* TxOrchestrator._transition_status
transition_status(c, new_status) ==
    IF ~can_transition_to(c.row, new_status)
        THEN [c EXCEPT !.refused = @ \cup {<<c.row.status, new_status>>}]
        ELSE [c EXCEPT !.row.status = new_status,
                       !.row.updated_at = @ + 1,
                       !.ev = Append(@, StatusChanged(c.row.status, new_status)),
                       !.moves = @ \cup {<<c.row.status, new_status>>}]

\* web3.eth.get_transaction_count(address, "pending"): the transactions of
\* the sender the node holds, counted from nonce 0 without a gap
get_transaction_count(sender) ==
    LET used == {b.nonce : b \in {x \in broadcasts : x.sender = sender}}
    IN  CHOOSE n \in 0..Cardinality(used) :
            /\ n \notin used
            /\ \A m \in 0..(n - 1) : m \in used

\* NonceManager.get_nonce on the manager of a fresh EthereumService (one is
\* built for every HTTP call): the cache is empty, max(chain_nonce, 0)
get_nonce(sender) == get_transaction_count(sender)

\* a transaction the node accepted: sender (one address per custody
\* backend in the model), nonce and raw bytes
Broadcast(row) ==
    [sender |-> row.custody, nonce |-> row.nonce, raw |-> row.signed_tx]

\* TxOrchestrator._process_broadcast; ok: the node accepted the transaction
process_broadcast(c, ok) ==
    LET c1 == transition_status(c, "BROADCAST_PENDING")
    IN  IF ok
            THEN LET c2 == log([c1 EXCEPT !.sent = @ \cup {Broadcast(c.row)}],
                               "TX_BROADCASTED")
                     c3 == [c2 EXCEPT !.row.tx_hash = <<"sent", c.row.signed_tx>>]
                     c4 == transition_status(c3, "BROADCASTED")
                 IN  transition_status(c4, "CONFIRMING")
            ELSE transition_status(c1, "FAILED_BROADCAST")

\* TxOrchestrator._issue_signing_permit
issue_permit(c, t) ==
    log([c EXCEPT !.permit = issue_signing_permit(CanonicalHash(t))],
        "SIGN_PERMIT_ISSUED")

\* SigningService._sign_with_dev_signer
sign_with_dev_signer(c, t) ==
    log([c EXCEPT !.sigs = @ \cup {[tx |-> t, path |-> "DEV_SIGNER",
                                    permit |-> NoPermit,
                                    msg |-> SigningHash(t),
                                    by |-> c.by]}],
        "TX_SIGNED")

\* TxOrchestrator._process_signing; prep: gas price, gas estimate, nonce and
\* permit issuance raised nothing; sign: the signer raised nothing
process_signing(c, t, prep, sign, bc) ==
    LET c1 == transition_status(c, "SIGN_PENDING")
    IN  IF ~prep
            THEN transition_status(c1, "FAILED_SIGN")
        ELSE IF c.row.custody = "MPC_TECDSA"
            THEN issue_permit([c1 EXCEPT !.row.nonce = get_nonce(c.row.custody)], t)
        ELSE IF ~sign
            THEN transition_status([c1 EXCEPT !.row.nonce = get_nonce(c.row.custody)],
                                   "FAILED_SIGN")
        ELSE LET c2 == sign_with_dev_signer(
                           [c1 EXCEPT !.row.nonce = get_nonce(c.row.custody)], t)
                 c3 == [c2 EXCEPT !.row.signed_tx = <<"DEV_SIGNER", t>>,
                                  !.row.tx_hash = <<"hash", <<"DEV_SIGNER", t>>>>]
                 c4 == transition_status(c3, "SIGNED")
             IN  process_broadcast(c4, bc)

\* the gate decided on the approval count alone
process_approval_gate_by_count(c, t, pr, prep, sign, bc) ==
    IF pr.approval_count > 0
        THEN transition_status(c, "APPROVAL_PENDING")
        ELSE process_signing(
                 log(transition_status(c, "APPROVAL_SKIPPED"), "APPROVALS_SKIPPED"),
                 t, prep, sign, bc)

\* TxOrchestrator._process_approval_gate
process_approval_gate(c, t, pr, prep, sign, bc) ==
    IF pr.approval_required /\ pr.approval_count > 0
        THEN transition_status(c, "APPROVAL_PENDING")
        ELSE process_signing(
                 log(transition_status(c, "APPROVAL_SKIPPED"), "APPROVALS_SKIPPED"),
                 t, prep, sign, bc)

\* KYTService.evaluate_outbound followed by TxOrchestrator._process_kyt_v2
process_kyt_v2(c, t, pr, kyt, prep, sign, bc) ==
    LET c1 == transition_status(c, "KYT_PENDING")
        c2 == IF kyt = "REVIEW" THEN log(c1, "KYT_CASE_CREATED") ELSE c1
        c3 == log(c2, "TX_KYT_EVALUATED")
        c4 == [c3 EXCEPT !.row.kyt_result = kyt,
                         !.row.kyt_case = IF kyt = "REVIEW" THEN "PENDING" ELSE @]
    IN  IF kyt = "BLOCK" THEN transition_status(c4, "KYT_BLOCKED")
        ELSE IF kyt = "REVIEW" THEN transition_status(c4, "KYT_REVIEW")
        ELSE process_approval_gate(c4, t, pr, prep, sign, bc)

\* PolicyEvalResult values PolicyEngineV2.evaluate returns: the default deny
\* without a group, a matched BLOCK rule, a matched ALLOW rule with its
\* control requirements, and a matched rule whose decision is CONTINUE (the
\* default of PolicyRule.decision), which evaluate returns like any other
PolicyResult(matched, decision, kyt, appr, count) ==
    [matched |-> matched, decision |-> decision, allowed |-> decision = "ALLOW",
     kyt_required |-> kyt, approval_required |-> appr, approval_count |-> count]

PolicyResults ==
    {PolicyResult("NO_GROUP", "BLOCK", FALSE, FALSE, 0),
     PolicyResult("RULE", "BLOCK", FALSE, FALSE, 0),
     PolicyResult("RULE", "CONTINUE", TRUE, FALSE, 0)}
    \cup {PolicyResult("RULE", "ALLOW", k, a, n) :
             k \in BOOLEAN, a \in BOOLEAN, n \in 0..MaxApprovalCount}

\* KYTService.evaluate_outbound never returns UNCHECKED: an unavailable
\* provider leaves the local result, ALLOW unless the address is listed
KytResults == {"ALLOW", "REVIEW", "BLOCK"}

\* TxOrchestrator._process_policy_v2
process_policy_v2(c, t, pr, kyt, prep, sign, bc) ==
    LET c1 == transition_status(c, "POLICY_EVAL_PENDING")
        c2 == IF pr.matched = "NO_GROUP" THEN c1 ELSE log(c1, "TX_POLICY_EVALUATED")
        c3 == [c2 EXCEPT !.row.policy_result = pr,
                         !.row.requires_approval = pr.approval_required,
                         !.row.required_approvals = pr.approval_count]
    IN  IF ~pr.allowed THEN transition_status(c3, "POLICY_BLOCKED")
        ELSE IF pr.kyt_required
            THEN process_kyt_v2(c3, t, pr, kyt, prep, sign, bc)
        ELSE process_approval_gate(
                 log(transition_status(c3, "KYT_SKIPPED"), "KYT_SKIPPED"),
                 t, pr, prep, sign, bc)

\* TxRequest.updated_at has onupdate = utcnow: an UPDATE that does not set
\* the column itself stamps it
onupdate(before, after) ==
    IF after # before /\ after.updated_at = before.updated_at
        THEN [after EXCEPT !.updated_at = @ + 1]
        ELSE after

\* the end of a handler: the session's changes to one request are committed
Commit(t, c) ==
    /\ tx' = [tx EXCEPT ![t] = onupdate(tx[t], c.row)]
    /\ events' = [events EXCEPT ![t] = c.ev]
    /\ moves' = [moves EXCEPT ![t] = c.moves]
    /\ refused' = [refused EXCEPT ![t] = c.refused]
    /\ permits' = [permits EXCEPT ![t] = c.permit]
    /\ signatures' = signatures \cup c.sigs
    /\ broadcasts' = broadcasts \cup c.sent

AuditUnchanged == UNCHANGED <<alog, asess, tamper, vrep>>
CallsUnchanged == UNCHANGED calls
LedgerUnchanged == UNCHANGED deposits
ChainUnchanged == UNCHANGED broadcasts
PolicyUnchanged ==
    UNCHANGED <<group_members, default_group, policy_rules, evaluations>>
VolumeUnchanged == UNCHANGED daily_volume
WorldUnchanged ==
    UNCHANGED <<wallet_status, settings, screening, listener, chain, inbound, permit_check>>

\* POST /v1/tx-requests without an Idempotency-Key header, for a wallet that
\* passes the balance check: TxOrchestrator.create_tx_request. A wallet that
\* does not exist is refused; an MPC wallet before its keygen has no address,
\* so no deposit, and the balance check refuses every amount
create_tx_request(t, u, custody, pr, kyt, prep, sign, bc) ==
    /\ tx[t].status = None
    /\ wallet_status[custody] # None
    /\ ~(custody = "MPC_TECDSA" /\ wallet_status[custody] = "PENDING_KEYGEN")
    /\ LET c0 == [Ctx(t) EXCEPT !.row = [NoRow EXCEPT !.status = "SUBMITTED",
                                                      !.created_by = u,
                                                      !.custody = custody]]
           c1 == log(c0, "TX_REQUEST_CREATED")
       IN  Commit(t, process_policy_v2(c1, t, pr, kyt, prep, sign, bc))
    /\ UNCHANGED <<approvals, sessions>>
    /\ AuditUnchanged
    /\ PolicyUnchanged
    /\ WorldUnchanged
    /\ VolumeUnchanged
    /\ LedgerUnchanged
    /\ CallsUnchanged

\* votes recorded for a request
ApprovalsOf(t, table) == {a \in table : a.tx = t}

\* the checks of process_approval with the creator check left out
approval_refusal_without_sod(row, u, voted) ==
    IF row.status = None THEN "not found"
    ELSE IF row.status # "APPROVAL_PENDING" THEN "not pending approval"
    ELSE IF voted THEN "already voted"
    ELSE None

\* the checks TxOrchestrator.process_approval makes before it writes: the
\* ValueError it raises, None when it goes on; voted: the SELECT for a vote
\* of this user on this request found a row
approval_refusal(row, u, voted) ==
    IF row.status = None THEN "not found"
    ELSE IF row.status # "APPROVAL_PENDING" THEN "not pending approval"
    ELSE IF row.created_by = u THEN "creator cannot be approver"
    ELSE IF voted THEN "already voted"
    ELSE None

\* the threshold met by the first vote, whatever the request requires
threshold_reached_by_any_vote(approved_count, required_approvals) ==
    approved_count >= 1

\* process_approval: the APPROVED votes suffice for signing
threshold_reached(approved_count, required_approvals) ==
    approved_count >= required_approvals

\* POST /v1/tx-requests/{id}/approve: TxOrchestrator.process_approval
process_approval(t, u, decision, prep, sign, bc) ==
    /\ approval_refusal(tx[t], u,
                        \E a \in ApprovalsOf(t, approvals) : a.user = u) = None
    /\ LET table == approvals \cup {[tx |-> t, user |-> u, decision |-> decision]}
           c1 == log(Ctx(t), IF decision = "APPROVED"
                                 THEN "TX_APPROVAL_RECEIVED"
                                 ELSE "TX_REJECTION_RECEIVED")
           approved_count ==
               Cardinality({a \in ApprovalsOf(t, table) : a.decision = "APPROVED"})
       IN  /\ approvals' = table
           /\ Commit(t, IF decision = "REJECTED"
                            THEN transition_status(c1, "REJECTED")
                        ELSE IF threshold_reached(approved_count,
                                                  tx[t].required_approvals)
                            THEN process_signing(c1, t, prep, sign, bc)
                        ELSE c1)
    /\ UNCHANGED sessions
    /\ AuditUnchanged
    /\ PolicyUnchanged
    /\ WorldUnchanged
    /\ VolumeUnchanged
    /\ LedgerUnchanged
    /\ CallsUnchanged

\* POST /v1/cases/{id}/resolve: KYTService.resolve_case
resolve_case(t, decision) ==
    /\ tx[t].kyt_case = "PENDING"
    /\ Commit(t, log([Ctx(t) EXCEPT !.row.kyt_case =
                          IF decision = "ALLOW" THEN "RESOLVED_ALLOW"
                                                ELSE "RESOLVED_BLOCK"],
                     "KYT_CASE_RESOLVED"))
    /\ UNCHANGED <<approvals, sessions>>
    /\ AuditUnchanged
    /\ PolicyUnchanged
    /\ WorldUnchanged
    /\ VolumeUnchanged
    /\ LedgerUnchanged
    /\ CallsUnchanged

\* POST /v1/tx-requests/{id}/resume: TxOrchestrator.resume_after_kyt_resolution
resume_after_kyt_resolution(t, prep, sign, bc) ==
    /\ tx[t].status = "KYT_REVIEW"
    /\ tx[t].kyt_case \in {"RESOLVED_ALLOW", "RESOLVED_BLOCK"}
    /\ Commit(t, IF tx[t].kyt_case = "RESOLVED_BLOCK"
                     THEN transition_status(Ctx(t), "KYT_BLOCKED")
                     ELSE process_approval_gate(Ctx(t), t, tx[t].policy_result,
                                                prep, sign, bc))
    /\ UNCHANGED <<approvals, sessions>>
    /\ AuditUnchanged
    /\ PolicyUnchanged
    /\ WorldUnchanged
    /\ VolumeUnchanged
    /\ LedgerUnchanged
    /\ CallsUnchanged

\* MPCCoordinator.sign_ethereum_transaction, called by
\* SigningService._sign_with_mpc: the transaction is signed with the keyset's
\* key and the permit object is marked used
sign_ethereum_transaction(c, t) ==
    LET c1 == [c EXCEPT !.sigs = @ \cup {[tx |-> t, path |-> "MPC_TECDSA",
                                          permit |-> c.permit,
                                          msg |-> SigningHash(t),
                                          by |-> c.by]}]
        c2 == log(c1, "MPC_SIGN_COMPLETED")
    IN  [c2 EXCEPT !.permit.is_used = TRUE, !.permit.used_at = "utcnow"]

\* permits the SELECT of complete_mpc_signing returns for a request
valid_permit(permit) == permit.issued /\ ~permit.is_used /\ ~permit.is_revoked

\* the try block of TxOrchestrator.complete_mpc_signing
mpc_sign_and_broadcast(c, t, bc) ==
    LET c1 == log(sign_ethereum_transaction(c, t), "TX_SIGNED")
        c2 == [c1 EXCEPT !.permit.is_used = TRUE,
                         !.permit.used_at = "utcnow",
                         !.row.signed_tx = <<"MPC_TECDSA", t>>,
                         !.row.tx_hash = <<"hash", <<"MPC_TECDSA", t>>>>]
    IN  process_broadcast(transition_status(c2, "SIGNED"), bc)

\* POST /v1/tx-requests/{id}/sign: TxOrchestrator.complete_mpc_signing.
\* A signer that raises makes the endpoint answer 500 without committing,
\* which leaves the database as it was.
complete_mpc_signing(t, bc) ==
    /\ tx[t].status = "SIGN_PENDING"
    /\ tx[t].custody = "MPC_TECDSA"
    /\ valid_permit(permits[t])
    /\ ~permits[t].expired
    /\ Commit(t, mpc_sign_and_broadcast(Ctx(t), t, bc))
    /\ UNCHANGED <<approvals, sessions>>
    /\ AuditUnchanged
    /\ PolicyUnchanged
    /\ WorldUnchanged
    /\ VolumeUnchanged
    /\ LedgerUnchanged
    /\ CallsUnchanged

\* time passes: utcnow() moves beyond a permit's expires_at (followed while
\* the permit can still be presented: unused, request in SIGN_PENDING)
permit_expires(t) ==
    /\ valid_permit(permits[t])
    /\ tx[t].status = "SIGN_PENDING"
    /\ ~permits[t].expired
    /\ permits' = [permits EXCEPT ![t].expired = TRUE]
    /\ UNCHANGED <<tx, approvals, events, moves, refused, signatures, sessions>>
    /\ AuditUnchanged
    /\ PolicyUnchanged
    /\ WorldUnchanged
    /\ VolumeUnchanged
    /\ LedgerUnchanged
    /\ ChainUnchanged
    /\ CallsUnchanged

\* what EthereumService.check_confirmations answers for a sent transaction:
\* -1 for a reverted receipt, else the number of confirmations
Reverted == -1
\* no receipt: the Python value None
NoReceipt == -2
ConfirmationAnswers == {Reverted} \cup (0..ConfirmationBlocks)

\* EthereumService.check_confirmations: the event it logs by itself
check_confirmations(c, confirmations) ==
    IF confirmations >= ConfirmationBlocks THEN log(c, "TX_CONFIRMED") ELSE c

\* PolicyService.update_daily_volume: today's row of the wallet is created
\* or incremented
update_daily_volume(volume, wallet, amount) ==
    [volume EXCEPT ![wallet] = [tx_count |-> @.tx_count + 1,
                                total_amount |-> @.total_amount + amount]]

\* TxOrchestrator.check_confirmation on a CONFIRMING request with a tx_hash:
\* what the session holds when it returns
confirmation_checked(c, confirmations) ==
    LET c1 == check_confirmations(c, confirmations)
        c2 == [c1 EXCEPT !.row.confirmations = confirmations]
    IN  IF confirmations = Reverted
            THEN transition_status(c1, "FAILED_BROADCAST")
        ELSE IF confirmations >= ConfirmationBlocks
            THEN log(transition_status(transition_status(c2, "CONFIRMED"),
                                       "FINALIZED"),
                     "TX_FINALIZED")
        ELSE c2

\* check_tx_confirmation, the answer of the endpoint: check_confirmation
\* drops what _transition_status returned and hands the request back, which
\* is sent with status 200
check_tx_confirmation_response(c) == [status_code |-> 200, data |-> c.row]

\* POST /v1/tx-requests/{id}/check-confirmation:
\* TxOrchestrator.check_confirmation (no receipt yet: nothing changes)
check_confirmation(t, confirmations) ==
    /\ tx[t].status = "CONFIRMING"
    /\ tx[t].tx_hash # NoHash
    /\ confirmations >= tx[t].confirmations \/ confirmations = Reverted
    /\ Commit(t, confirmation_checked(Ctx(t), confirmations))
    /\ UNCHANGED <<approvals, sessions>>
    /\ AuditUnchanged
    /\ PolicyUnchanged
    /\ WorldUnchanged
    /\ daily_volume' =
           IF confirmations # Reverted /\ confirmations >= ConfirmationBlocks
               THEN update_daily_volume(daily_volume, tx[t].custody, tx[t].amount)
               ELSE daily_volume
    /\ LedgerUnchanged
    /\ CallsUnchanged

\* a direct assignment tx.status = new_status, outside _transition_status
assign_status(c, new_status) ==
    IF c.row.status = new_status THEN c
    ELSE [c EXCEPT !.row.status = new_status,
                   !.moves = @ \cup {<<c.row.status, new_status>>}]

(***************************************************************************)
(* ChainListener                                                           *)
(***************************************************************************)
\* the body of the loop of ChainListener._check_confirmations for one
\* CONFIRMING request; no receipt (or a failing RPC): the request is skipped
listener_check(c, answer) ==
    IF answer = NoReceipt THEN c
    ELSE IF answer = Reverted
        THEN log(assign_status(c, "FAILED_BROADCAST"), "TX_FAILED")
    ELSE LET c1 == check_confirmations(c, answer)
             c2 == [c1 EXCEPT !.row.confirmations = answer]
         IN  IF answer >= ConfirmationBlocks
                 THEN log(assign_status(
                              log(assign_status(c2, "CONFIRMED"), "TX_CONFIRMED"),
                              "FINALIZED"),
                          "TX_FINALIZED")
                 ELSE c2

\* one iteration of ChainListener._poll: every CONFIRMING request with a
\* tx_hash is checked, then the session commits
listener_poll(answers) ==
    LET due(t) == tx[t].status = "CONFIRMING" /\ tx[t].tx_hash # NoHash
        res(t) == IF due(t) THEN listener_check(Ctx(t), answers[t]) ELSE Ctx(t)
    IN  /\ \E t \in Tx : due(t) /\ answers[t] # NoReceipt
        /\ \A t \in Tx : due(t) /\ answers[t] \in 0..ConfirmationBlocks
                            => answers[t] >= tx[t].confirmations
        /\ tx' = [t \in Tx |-> onupdate(tx[t], res(t).row)]
        /\ events' = [t \in Tx |-> res(t).ev]
        /\ moves' = [t \in Tx |-> res(t).moves]
        /\ UNCHANGED <<approvals, permits, refused, signatures, sessions>>
        /\ AuditUnchanged
        /\ PolicyUnchanged
        /\ WorldUnchanged
        /\ VolumeUnchanged
        /\ LedgerUnchanged
        /\ ChainUnchanged
        /\ CallsUnchanged
    /\ CallsUnchanged

(***************************************************************************)
(* Interactive MPC signing over the WebSocket                              *)
(***************************************************************************)
\* expired: utcnow() is beyond the session's expires_at
NoSession == [state |-> "free", tx |-> None, msg |-> NoHash, expired |-> FALSE]

\* a message hash the browser supplies that is not the request's signing hash
ArbitraryHash == <<"keccak", "arbitrary">>

\* handle_sign_start: a session is created and a permit for the signer node
\* is minted from the ids and the hash of the message; started: the bank
\* signer accepted, otherwise the session is cleaned up
handle_sign_start(s, t, message_hash, started) ==
    /\ sessions[s].state = "free"
    /\ sessions' = [sessions EXCEPT ![s] =
                        IF started
                            THEN [state |-> "active", tx |-> t, msg |-> message_hash,
                                  expired |-> FALSE]
                            ELSE [NoSession EXCEPT !.state = "closed"]]
    /\ UNCHANGED <<tx, approvals, permits, events, moves, refused, signatures>>
    /\ AuditUnchanged
    /\ PolicyUnchanged
    /\ WorldUnchanged
    /\ VolumeUnchanged
    /\ LedgerUnchanged
    /\ ChainUnchanged
    /\ CallsUnchanged

\* _finalize_signing on an existing request: the assembled transaction is
\* stored, the status is written and the transaction is broadcast
finalize_signing(c, s, bc) ==
    LET c1 == [c EXCEPT !.row.signed_tx = <<"MPC_WS", s>>,
                        !.row.tx_hash = <<"hash", <<"MPC_WS", s>>>>]
        c2 == IF c1.row.status = "SIGN_PENDING"
                  THEN assign_status(c1, "SIGNED") ELSE c1
        c3 == assign_status(c2, "BROADCAST_PENDING")
    IN  IF bc
            THEN LET c4 == log([c3 EXCEPT !.sent = @ \cup
                                   {[Broadcast(c3.row) EXCEPT !.nonce =
                                         IF @ = NoNonce THEN 0 ELSE @]}],
                               "TX_BROADCASTED")
                     c5 == [c4 EXCEPT !.row.tx_hash = <<"sent", <<"MPC_WS", s>>>>]
                 IN  assign_status(assign_status(c5, "BROADCASTED"), "CONFIRMING")
            ELSE assign_status(c3, "FAILED_BROADCAST")

\* handle_sign_round when the signer node reports the final round with a
\* result: the signature exists, _finalize_signing runs; a finalizer that
\* raises (no such request, broadcast refused) closes the session
handle_sign_round_final(s, bc) ==
    LET t == sessions[s].tx
        sig == [tx |-> t, path |-> "MPC_WS", permit |-> NoPermit,
                msg |-> sessions[s].msg, by |-> s]
    IN  /\ sessions[s].state = "active"
        /\ bc => sessions[s].msg = SigningHash(t)
        /\ IF tx[t].status = None
               THEN /\ signatures' = signatures \cup {sig}
                    /\ sessions' = [sessions EXCEPT ![s] =
                                        [NoSession EXCEPT !.state = "closed"]]
                    /\ UNCHANGED <<tx, permits, events, moves, refused,
                                   broadcasts>>
               ELSE /\ Commit(t, [finalize_signing(Ctx(t), s, bc)
                                     EXCEPT !.sigs = {sig}])
                    /\ sessions' = [sessions EXCEPT ![s] =
                                        IF bc THEN [@ EXCEPT !.state = "completed"]
                                        ELSE [NoSession EXCEPT !.state = "closed"]]
        /\ UNCHANGED approvals
        /\ AuditUnchanged
        /\ PolicyUnchanged
        /\ WorldUnchanged
        /\ VolumeUnchanged
        /\ LedgerUnchanged
        /\ CallsUnchanged
    /\ CallsUnchanged

\* handle_sign_round when the signer node reports an error or raises:
\* SIGN_ERROR is sent and the session is cleaned up
handle_sign_round_error(s) ==
    /\ sessions[s].state = "active"
    /\ sessions' = [sessions EXCEPT ![s] = [NoSession EXCEPT !.state = "closed"]]
    /\ UNCHANGED <<tx, approvals, permits, events, moves, refused, signatures>>
    /\ AuditUnchanged
    /\ PolicyUnchanged
    /\ WorldUnchanged
    /\ VolumeUnchanged
    /\ LedgerUnchanged
    /\ ChainUnchanged
    /\ CallsUnchanged

(***************************************************************************)
(* The service: requests, approvals, signing, confirmation                 *)
(***************************************************************************)
\* a database session that is not inside log_event and holds no rows
NoAppender == [pc |-> "idle", prev_hash |-> NoHash, seq |-> 0, n |-> 0,
               pending |-> <<>>]
\* no audit row was modified out of band
NoTamper == [done |-> FALSE, pos |-> 0, field |-> None]
\* verify_chain has not run since the table last changed
NoReport == [done |-> FALSE, is_valid |-> TRUE, errors |-> {}]
\* a POST /sign call that has not started
NoCall == [pc |-> "idle", tx |-> None]
\* no evaluation made yet
NoEvaluation ==
    [done |-> FALSE, user |-> None, amount |-> 0, address_status |-> None,
     member_of |-> {}, rules |-> <<>>, winner |-> 0, result |-> <<>>,
     logged |-> <<>>]

\* DailyVolume column defaults
NoVolume == [tx_count |-> 0, total_amount |-> 0]

\* Settings.bitok_enabled and Settings.bitok_fallback_on_error
DefaultSettings == [bitok_enabled |-> FALSE, bitok_fallback_on_error |-> TRUE]

\* a request whose recipient was not screened
NoScreening ==
    [done |-> FALSE, local |-> None, remote |-> None, called |-> FALSE,
     result |-> None, case |-> FALSE, settings |-> DefaultSettings]

\* a signing_permits row with every column, before any was issued
NoPermitRow ==
    [id |-> None, tx_request_id |-> None, wallet_id |-> None,
     keyset_id |-> None, tx_hash |-> NoHash, kyt_result |-> None,
     kyt_snapshot |-> None, policy_result |-> None, policy_snapshot |-> None,
     approval_snapshot |-> [count |-> 0, by |-> None],
     audit_anchor_hash |-> None, permit_hash |-> <<>>, signature |-> <<>>,
     issued_at |-> 0, expires_at |-> 0, is_used |-> FALSE,
     is_revoked |-> FALSE]
\* no permit issued, no column altered, no validation made
NoPermitCheck ==
    [issued |-> FALSE, permit |-> NoPermitRow, altered |-> {}, valid |-> None]

\* a ChainListener after __init__
NoBlock == -1
\* ChainListener.__init__; pc is where the task of start() stands: "idle"
\* before its first step, "tick" inside _poll, "sleep" in asyncio.sleep,
\* "exited" once start() has returned or was cancelled; failed: the last
\* _poll raised
NoListener ==
    [running |-> FALSE, stopping |-> FALSE, pc |-> "idle", failed |-> FALSE,
     last_processed_block |-> NoBlock]

\* a Deposit row before it is inserted
NoDeposit == [status |-> None, amount |-> 0, kyt_result |-> None]

InitCore ==
    /\ tx = [t \in Tx |-> NoRow]
    /\ approvals = {}
    /\ permits = [t \in Tx |-> NoPermit]
    /\ events = [t \in Tx |-> <<>>]
    /\ moves = [t \in Tx |-> {}]
    /\ refused = [t \in Tx |-> {}]
    /\ signatures = {}
    /\ sessions = [s \in Sessions |-> NoSession]
    /\ calls = [k \in Calls |-> NoCall]
    /\ deposits = [d \in Deposits |-> NoDeposit]
    /\ broadcasts = {}
    /\ group_members = {}
    /\ default_group = None
    /\ policy_rules = <<>>
    /\ evaluations = NoEvaluation
    /\ daily_volume = [w \in CustodyBackend |-> NoVolume]
    /\ alog = <<>>
    /\ asess = [a \in AuditSessions |-> NoAppender]
    /\ tamper = NoTamper
    /\ vrep = NoReport
    /\ screening = [t \in Tx |-> NoScreening]
    /\ listener = NoListener
    /\ chain = <<>>
    /\ inbound = <<>>
    /\ permit_check = NoPermitCheck

\* the deployment the service is followed in: both wallets exist and are
\* ACTIVE, the settings have the defaults of config.py
Init ==
    /\ InitCore
    /\ wallet_status = [w \in CustodyBackend |-> "ACTIVE"]
    /\ settings = DefaultSettings

CreateTxRequest ==
    \E t \in Followed, u \in Creators, custody \in CustodyBackend, pr \in PolicyResults,
       kyt \in KytResults, prep \in BOOLEAN, sign \in BOOLEAN, bc \in BOOLEAN :
        create_tx_request(t, u, custody, pr, kyt, prep, sign, bc)

ProcessApproval ==
    \E t \in Tx, u \in Users, decision \in {"APPROVED", "REJECTED"},
       prep \in BOOLEAN, sign \in BOOLEAN, bc \in BOOLEAN :
        process_approval(t, u, decision, prep, sign, bc)

ResolveCase == \E t \in Tx, decision \in {"ALLOW", "BLOCK"} : resolve_case(t, decision)

ResumeAfterKyt ==
    \E t \in Tx, prep \in BOOLEAN, sign \in BOOLEAN, bc \in BOOLEAN :
        resume_after_kyt_resolution(t, prep, sign, bc)

CompleteMpcSigning == \E t \in Tx, bc \in BOOLEAN : complete_mpc_signing(t, bc)

PermitExpires == \E t \in Tx : permit_expires(t)

CheckConfirmation ==
    \E t \in Tx, n \in ConfirmationAnswers : check_confirmation(t, n)

ListenerPoll ==
    \E answers \in [Tx -> ConfirmationAnswers \cup {NoReceipt}] : listener_poll(answers)

HandleSignStart ==
    \E s \in Sessions, t \in Tx, started \in BOOLEAN,
       h \in {"signing", "arbitrary"} :
        handle_sign_start(s, t, IF h = "signing" THEN SigningHash(t)
                                                 ELSE ArbitraryHash, started)

HandleSignRoundFinal == \E s \in Sessions, bc \in BOOLEAN : handle_sign_round_final(s, bc)

HandleSignRoundError == \E s \in Sessions : handle_sign_round_error(s)

Next ==
    \/ CreateTxRequest
    \/ ProcessApproval
    \/ ResolveCase
    \/ ResumeAfterKyt
    \/ CompleteMpcSigning
    \/ PermitExpires
    \/ CheckConfirmation
    \/ ListenerPoll
    \/ HandleSignStart
    \/ HandleSignRoundFinal
    \/ HandleSignRoundError

Spec == Init /\ [][Next]_vars

(***************************************************************************)
(* Properties of the request lifecycle                                     *)
(***************************************************************************)
Exists(t) == tx[t].status # None

ApprovedCount(t) ==
    Cardinality({a \in ApprovalsOf(t, approvals) : a.decision = "APPROVED"})

\* the three controls of a request: policy ALLOW, KYT ALLOW (or the case
\* resolved ALLOW, or KYT not required by the matched rule), and the
\* approvals the matched rule requires
ControlsPassed(t) ==
    /\ tx[t].policy_result.decision = "ALLOW"
    /\ tx[t].policy_result.kyt_required =>
           \/ tx[t].kyt_result = "ALLOW"
           \/ tx[t].kyt_case = "RESOLVED_ALLOW"
    /\ (tx[t].requires_approval /\ tx[t].required_approvals > 0) =>
           /\ ApprovedCount(t) >= tx[t].required_approvals
           /\ \A a \in ApprovalsOf(t, approvals) : a.decision = "APPROVED"

\* C1: a request carries a signed transaction, a broadcast hash or a signing
\* permit only if policy, KYT and approvals all passed; in particular a
\* POLICY_BLOCKED request has none of them, whatever the entry point.
NoSigningWithoutControls ==
    \A t \in Tx :
        (Exists(t) /\ (tx[t].signed_tx # NoHash \/ tx[t].tx_hash # NoHash
                       \/ permits[t].issued))
            => ControlsPassed(t)

MpcPaths == {"MPC_TECDSA", "MPC_WS"}

\* C2: every signature produced for an MPC request was produced under a
\* permit that was, when the signer ran, issued, unused, not revoked, not
\* expired, correctly HMAC-signed and bound to the very hash that was signed.
SignatureNeedsValidPermit ==
    \A sig \in signatures :
        sig.path \in MpcPaths =>
            /\ sig.permit.issued
            /\ validate_signing_permit(sig.permit, sig.msg)

\* C3: every status write made to a request, by the orchestrator, the chain
\* listener or the MPC finalizer, goes from a status to one of its legal
\* successors.
OnlyLegalSuccessors ==
    \A t \in Tx : \A m \in moves[t] : m[2] \in VALID_TRANSITIONS[m[1]]

\* C4: for every request and every target status that is not a legal
\* successor of its current status, _transition_status leaves the row as it
\* was (status, updated_at, every column) and appends no audit event.
RefusedTransitionChangesNothing ==
    \A t \in Tx : \A s \in TxStatus :
        (Exists(t) /\ ~can_transition_to(tx[t], s)) =>
            LET c == transition_status(Ctx(t), s)
            IN  /\ c.row = tx[t]
                /\ c.ev = events[t]
                /\ c.moves = moves[t]
                /\ c.permit = permits[t]

\* a transition was attempted by a handler and refused: the manual
\* confirmation check met a reverted receipt
RefusedAttemptHappened ==
    \E t \in Tx : <<"CONFIRMING", "FAILED_BROADCAST">> \in refused[t]

\* new_status of the latest TX_STATUS_CHANGED event, SUBMITTED when none
LastRecordedStatus(ev) ==
    LET changes == SelectSeq(ev, LAMBDA e : e.type = "TX_STATUS_CHANGED")
    IN  IF changes = <<>> THEN "SUBMITTED" ELSE changes[Len(changes)].new

\* C5: in every committed state the status of each request is the new_status
\* of its latest TX_STATUS_CHANGED audit event (SUBMITTED when it has none).
StatusMatchesAuditTrail ==
    \A t \in Tx : Exists(t) => tx[t].status = LastRecordedStatus(events[t])

Terminal == {"POLICY_BLOCKED", "KYT_BLOCKED", "REJECTED", "FAILED_SIGN", "FINALIZED"}

\* C6: once a request is in POLICY_BLOCKED, KYT_BLOCKED, REJECTED, FAILED_SIGN
\* or FINALIZED, no later step changes its status.
TerminalStatesAreFinal ==
    [][\A t \in Tx : tx[t].status \in Terminal => tx'[t].status = tx[t].status]_vars

\* C10: whenever an MPC request carries a signed transaction, its permit is
\* marked used (is_used true, used_at set) in the same committed state.
SignedImpliesPermitUsed ==
    \A t \in Tx :
        (Exists(t) /\ tx[t].custody = "MPC_TECDSA" /\ tx[t].signed_tx # NoHash)
            => (permits[t].is_used /\ permits[t].used_at # None)

(***************************************************************************)
(* Audit log: AuditService.log_event under concurrent database sessions    *)
(***************************************************************************)
\* log_event calls one database session makes
MaxAppends == 2

\* what a caller passes to log_event, with the timestamp the call reads
EventContents ==
    {[timestamp |-> "t0", event_type |-> "TX_REQUEST_CREATED",
      actor_id |-> "alice", actor_type |-> "USER", entity_type |-> "TX_REQUEST",
      entity_id |-> "tx-1", payload |-> "p0", correlation_id |-> "c0"],
     [timestamp |-> "t1", event_type |-> "TX_STATUS_CHANGED",
      actor_id |-> None, actor_type |-> "SYSTEM", entity_type |-> "TX_REQUEST",
      entity_id |-> "tx-1", payload |-> "p1", correlation_id |-> "c1"]}

\* AuditEvent.compute_hash without the payload
compute_hash_without_payload(e) ==
    <<"sha256", e.id, e.timestamp, e.event_type, e.actor_id, e.entity_type,
      e.entity_id, e.prev_hash>>

\* AuditEvent.compute_hash: SHA-256 of the canonical JSON of event_id,
\* timestamp, event_type, actor_id, entity_type, entity_id, payload, prev_hash
compute_hash(e) ==
    <<"sha256", e.id, e.timestamp, e.event_type, e.actor_id, e.entity_type,
      e.entity_id, e.payload, e.prev_hash>>

\* the rows a session's statements see: committed rows and its own
Visible(a) == alog \o asess[a].pending

MaxSeq(rows) ==
    IF rows = <<>> THEN 0
    ELSE CHOOSE m \in {rows[i].sequence_number : i \in 1..Len(rows)} :
             \A i \in 1..Len(rows) : rows[i].sequence_number <= m

\* AuditService._get_last_event: ORDER BY sequence_number DESC LIMIT 1
get_last_event(rows) ==
    CHOOSE i \in 1..Len(rows) : rows[i].sequence_number = MaxSeq(rows)

\* uuid4 of the n-th event a session creates
EventId(a, n) == [by |-> a, n |-> n]

\* the AuditEvent row log_event builds
AuditEvent(id, seq, content, prev_hash) ==
    LET e == [id |-> id, sequence_number |-> seq,
              timestamp |-> content.timestamp,
              event_type |-> content.event_type,
              actor_id |-> content.actor_id,
              actor_type |-> content.actor_type,
              entity_type |-> content.entity_type,
              entity_id |-> content.entity_id,
              payload |-> content.payload,
              correlation_id |-> content.correlation_id,
              prev_hash |-> prev_hash, hash |-> NoHash]
    IN  [e EXCEPT !.hash = compute_hash(e)]

RestUnchanged ==
    UNCHANGED <<tx, approvals, permits, events, moves, refused, signatures,
                sessions, calls, deposits, broadcasts, group_members,
                default_group, policy_rules, evaluations, daily_volume,
                wallet_status, settings, screening, listener, chain, inbound, permit_check>>

\* log_event, first statement: the last event is read for its hash
log_event_read_last(a) ==
    /\ ~tamper.done
    /\ asess[a].pc = "idle"
    /\ asess[a].n < MaxAppends
    /\ asess' = [asess EXCEPT
           ![a].pc = "read_last",
           ![a].n = @ + 1,
           ![a].prev_hash =
               IF Visible(a) = <<>> THEN NoHash
               ELSE Visible(a)[get_last_event(Visible(a))].hash]
    /\ UNCHANGED <<alog, tamper, vrep>>
    /\ RestUnchanged

\* log_event, second statement: SELECT coalesce(max(sequence_number), 0) + 1
log_event_read_seq(a) ==
    /\ asess[a].pc = "read_last"
    /\ asess' = [asess EXCEPT ![a].pc = "read_seq",
                              ![a].seq = MaxSeq(Visible(a)) + 1]
    /\ UNCHANGED <<alog, tamper, vrep>>
    /\ RestUnchanged

\* log_event, the flush: the row is inserted. sequence_number is unique: the
\* insert waits for a session holding the same number uncommitted, and fails
\* (the request is rolled back) when the number is already committed.
log_event_insert(a, content) ==
    /\ asess[a].pc = "read_seq"
    /\ \A b \in AuditSessions \ {a} :
           \A i \in 1..Len(asess[b].pending) :
               asess[b].pending[i].sequence_number # asess[a].seq
    /\ asess' = [asess EXCEPT ![a] =
           IF \E i \in 1..Len(alog) : alog[i].sequence_number = asess[a].seq
               THEN [@ EXCEPT !.pc = "idle", !.pending = <<>>]
               ELSE [@ EXCEPT !.pc = "idle",
                              !.pending = Append(@,
                                  AuditEvent(EventId(a, asess[a].n), asess[a].seq,
                                             content, asess[a].prev_hash))]]
    /\ UNCHANGED <<alog, tamper, vrep>>
    /\ RestUnchanged

\* the handler returns and the API layer commits the session
audit_commit(a) ==
    /\ asess[a].pc = "idle"
    /\ asess[a].pending # <<>>
    /\ alog' = alog \o asess[a].pending
    /\ asess' = [asess EXCEPT ![a].pending = <<>>]
    /\ vrep' = NoReport
    /\ UNCHANGED tamper
    /\ RestUnchanged

LogEventReadLast == \E a \in AuditSessions : log_event_read_last(a)
LogEventReadSeq == \E a \in AuditSessions : log_event_read_seq(a)
LogEventInsert ==
    \E a \in AuditSessions, content \in EventContents : log_event_insert(a, content)
AuditCommit == \E a \in AuditSessions : audit_commit(a)

NextAudit ==
    \/ LogEventReadLast
    \/ LogEventReadSeq
    \/ LogEventInsert
    \/ AuditCommit

SpecAudit == Init /\ [][NextAudit]_vars

\* C7: in every committed state of the audit table the sequence numbers are
\* exactly 1..n, each row's prev_hash is the hash of the row with the
\* preceding number (null for number 1), and each stored hash equals the
\* hash recomputed from the row.
AuditChainIntact ==
    LET n == Len(alog)
    IN  /\ {alog[i].sequence_number : i \in 1..n} = 1..n
        /\ \A i \in 1..n :
               /\ alog[i].hash = compute_hash(alog[i])
               /\ alog[i].sequence_number = 1 => alog[i].prev_hash = NoHash
               /\ \A j \in 1..n :
                      alog[j].sequence_number + 1 = alog[i].sequence_number
                          => alog[i].prev_hash = alog[j].hash

(***************************************************************************)
(* Audit log: verify_chain against a modified row                          *)
(***************************************************************************)
\* AuditService.verify_chain(from_sequence = None, to_sequence = None): the
\* rows are walked in sequence_number order; a row is reported when its
\* prev_hash is not the stored hash of the row before it (null for the
\* first) or when its stored hash is not the recomputed one
verify_chain(rows) ==
    LET n == Len(rows)
        rank(i) == Cardinality({j \in 1..n : rows[j].sequence_number
                                                < rows[i].sequence_number}) + 1
        before(i) == CHOOSE j \in 1..n : rank(j) + 1 = rank(i)
        expected_prev(i) == IF rank(i) = 1 THEN NoHash ELSE rows[before(i)].hash
        reported == {i \in 1..n : \/ rows[i].prev_hash # expected_prev(i)
                                  \/ rows[i].hash # compute_hash(rows[i])}
    IN  [done |-> TRUE,
         is_valid |-> reported = {},
         errors |-> {[id |-> rows[i].id, seq |-> rows[i].sequence_number] :
                        i \in reported}]

\* GET /v1/audit/verify
verify_chain_call ==
    /\ alog # <<>>
    /\ vrep' = verify_chain(alog)
    /\ UNCHANGED <<alog, asess, tamper>>
    /\ RestUnchanged

\* the columns of audit_events
AuditFields ==
    {"id", "sequence_number", "timestamp", "event_type", "actor_id",
     "actor_type", "entity_type", "entity_id", "payload", "correlation_id",
     "prev_hash", "hash"}

ForgedHash == <<"sha256", "forged">>

\* values a column can be overwritten with: the values events carry and a
\* foreign one; id and sequence_number stay unique, hash stays non-null
FieldValues(f) ==
    LET used(g) == {alog[j][g] : j \in 1..Len(alog)}
    IN  CASE f = "id" -> {EventId("forged", 0)}
          [] f = "sequence_number" -> (1..(MaxAppends + 1)) \ used(f)
          [] f = "prev_hash" -> {NoHash, ForgedHash} \cup used("hash")
          [] f = "hash" -> {ForgedHash} \cup used("hash")
          [] OTHER -> {c[f] : c \in EventContents} \cup {"forged"}

\* an UPDATE of one column of one persisted audit row, made behind the
\* service's back
tamper_event(i, f, v) ==
    /\ ~tamper.done
    /\ \A a \in AuditSessions : asess[a].pc = "idle" /\ asess[a].pending = <<>>
    /\ i \in 1..Len(alog)
    /\ v # alog[i][f]
    /\ alog' = [alog EXCEPT ![i][f] = v]
    /\ tamper' = [done |-> TRUE, pos |-> i, field |-> f]
    /\ vrep' = NoReport
    /\ UNCHANGED asess
    /\ RestUnchanged

TamperEvent ==
    \E i \in 1..Len(alog), f \in AuditFields :
        \E v \in FieldValues(f) : tamper_event(i, f, v)

\* the session whose handler writes the log that is then verified
Writer == "a"

NextVerify ==
    \/ log_event_read_last(Writer)
    \/ log_event_read_seq(Writer)
    \/ \E content \in EventContents : log_event_insert(Writer, content)
    \/ audit_commit(Writer)
    \/ TamperEvent
    \/ verify_chain_call

SpecVerify == Init /\ [][NextVerify]_vars

\* verify_chain flagged the row: an error carries its id and sequence number
Named(report, row) ==
    [id |-> row.id, seq |-> row.sequence_number] \in report.errors

\* C8 (as stated): after one column of one persisted audit event was changed,
\* whichever of the twelve columns it is, verify_chain returns is_valid =
\* false with an error naming that event.
AnyTamperDetected ==
    (tamper.done /\ vrep.done)
        => (~vrep.is_valid /\ Named(vrep, alog[tamper.pos]))

\* the columns compute_hash covers, and the stored hash itself
HashedFields ==
    {"id", "timestamp", "event_type", "actor_id", "entity_type", "entity_id",
     "payload", "prev_hash", "hash"}

\* C8 (amended): after one of id, timestamp, event_type, actor_id,
\* entity_type, entity_id, payload, prev_hash or hash of one persisted audit
\* event was changed, verify_chain returns is_valid = false with an error
\* naming that event.
HashedFieldTamperDetected ==
    (tamper.done /\ vrep.done /\ tamper.field \in HashedFields)
        => (~vrep.is_valid /\ Named(vrep, alog[tamper.pos]))

\* a hashed column of an event that has a successor was changed and the
\* chain was verified afterwards
HashedFieldTamperedAndVerified ==
    /\ tamper.done
    /\ vrep.done
    /\ tamper.field \in HashedFields
    /\ tamper.pos < Len(alog)

(***************************************************************************)
(* complete_mpc_signing under concurrent calls                             *)
(***************************************************************************)
\* complete_mpc_signing up to the try block: the request, the wallet and the
\* permit are read from the committed state (plain SELECTs, no row lock) and
\* the checks pass; the session keeps the objects it loaded
sign_load(k, t) ==
    /\ calls[k].pc = "idle"
    /\ tx[t].status = "SIGN_PENDING"
    /\ tx[t].custody = "MPC_TECDSA"
    /\ valid_permit(permits[t])
    /\ ~permits[t].expired
    /\ calls' = [calls EXCEPT ![k] =
                     [pc |-> "loaded", tx |-> t, base |-> Len(events[t]),
                      c |-> [Ctx(t) EXCEPT !.by = k]]]
    /\ UNCHANGED <<tx, approvals, permits, events, moves, refused, signatures,
                   sessions>>
    /\ AuditUnchanged
    /\ PolicyUnchanged
    /\ WorldUnchanged
    /\ VolumeUnchanged
    /\ LedgerUnchanged
    /\ ChainUnchanged

\* the try block on the loaded objects: the signer signs, the permit object
\* is marked used, the status is moved and the transaction is broadcast
sign_run(k, bc) ==
    /\ calls[k].pc = "loaded"
    /\ \A j \in Calls \ {k} : calls[j].pc # "signed"
    /\ LET c2 == mpc_sign_and_broadcast(calls[k].c, calls[k].tx, bc)
       IN  /\ calls' = [calls EXCEPT ![k].pc = "signed", ![k].c = c2]
           /\ signatures' = signatures \cup c2.sigs
           /\ broadcasts' = broadcasts \cup c2.sent
    /\ UNCHANGED <<tx, approvals, permits, events, moves, refused, sessions>>
    /\ AuditUnchanged
    /\ PolicyUnchanged
    /\ WorldUnchanged
    /\ VolumeUnchanged
    /\ LedgerUnchanged

\* the try block while another call holds uncommitted audit rows: the signer
\* signs, then the INSERT of MPC_SIGN_COMPLETED computes a sequence number the
\* other session already inserted, waits for it and fails on the unique
\* index; the call raises and its session is rolled back
sign_conflict(k) ==
    /\ calls[k].pc = "loaded"
    /\ \E j \in Calls \ {k} : calls[j].pc = "signed"
    /\ LET c2 == sign_ethereum_transaction(calls[k].c, calls[k].tx)
       IN  /\ calls' = [calls EXCEPT ![k].pc = "failed"]
           /\ signatures' = signatures \cup c2.sigs
    /\ UNCHANGED <<tx, approvals, permits, events, moves, refused, sessions>>
    /\ AuditUnchanged
    /\ PolicyUnchanged
    /\ WorldUnchanged
    /\ VolumeUnchanged
    /\ LedgerUnchanged
    /\ ChainUnchanged

\* the endpoint commits: the session's UPDATEs of the request and of the
\* permit and its audit events reach the database
sign_commit(k) ==
    /\ calls[k].pc = "signed"
    /\ LET t == calls[k].tx
           c == calls[k].c
       IN  /\ tx' = [tx EXCEPT ![t] = c.row]
           /\ permits' = [permits EXCEPT ![t] = c.permit]
           /\ events' = [events EXCEPT ![t] =
                             @ \o SubSeq(c.ev, calls[k].base + 1, Len(c.ev))]
           /\ moves' = [moves EXCEPT ![t] = @ \cup c.moves]
           /\ refused' = [refused EXCEPT ![t] = @ \cup c.refused]
    /\ calls' = [calls EXCEPT ![k].pc = "done"]
    /\ UNCHANGED <<approvals, signatures, sessions>>
    /\ AuditUnchanged
    /\ PolicyUnchanged
    /\ WorldUnchanged
    /\ VolumeUnchanged
    /\ LedgerUnchanged
    /\ ChainUnchanged

\* complete_mpc_signing's SELECT finds no valid permit, or the permit it
\* finds is expired: ValueError, the endpoint answers 400 and nothing is
\* written
sign_refused(k, t) ==
    /\ calls[k].pc = "idle"
    /\ tx[t].status = "SIGN_PENDING"
    /\ tx[t].custody = "MPC_TECDSA"
    /\ ~valid_permit(permits[t]) \/ permits[t].expired
    /\ calls' = [calls EXCEPT ![k] = [pc |-> "failed", tx |-> t]]
    /\ UNCHANGED <<tx, approvals, permits, events, moves, refused, signatures,
                   sessions>>
    /\ AuditUnchanged
    /\ PolicyUnchanged
    /\ WorldUnchanged
    /\ VolumeUnchanged
    /\ LedgerUnchanged
    /\ ChainUnchanged

\* the signer raises inside the try block: the except branch moves the loaded
\* object to FAILED_SIGN and re-raises, the endpoint answers 400 or 500
\* without a commit and the session is rolled back
sign_fails(k) ==
    /\ calls[k].pc = "loaded"
    /\ calls' = [calls EXCEPT ![k].pc = "failed",
                              ![k].c = transition_status(@, "FAILED_SIGN")]
    /\ UNCHANGED <<tx, approvals, permits, events, moves, refused, signatures,
                   sessions>>
    /\ AuditUnchanged
    /\ PolicyUnchanged
    /\ WorldUnchanged
    /\ VolumeUnchanged
    /\ LedgerUnchanged
    /\ ChainUnchanged

SignLoad == \E k \in Calls, t \in Tx : sign_load(k, t)
SignRun == \E k \in Calls, bc \in BOOLEAN : sign_run(k, bc)
SignConflict == \E k \in Calls : sign_conflict(k)
SignCommit == \E k \in Calls : sign_commit(k)

NextSign ==
    \/ CreateTxRequest
    \/ PermitExpires
    \/ SignLoad
    \/ SignRun
    \/ SignConflict
    \/ SignCommit
    \/ \E k \in Calls, t \in Tx : sign_refused(k, t)
    \/ \E k \in Calls : sign_fails(k)

SpecSign == Init /\ [][NextSign]_vars

\* signings that completed: the signature was produced and the call's
\* session committed
CompletedSignings ==
    {sig \in signatures : sig.path = "MPC_TECDSA" /\ sig.by \in Calls
                          /\ calls[sig.by].pc = "done"}

AtMostOneCompletedSigning ==
    \A s1 \in CompletedSignings : \A s2 \in CompletedSignings :
        s1.tx = s2.tx => s1 = s2

\* C9: a permit's is_used only ever goes from false to true, and no two
\* completed signings are authorized by the same permit, concurrent calls
\* included.
PermitIsOneShot ==
    [][/\ \A t \in Tx : permits[t].is_used => permits'[t].is_used
       /\ AtMostOneCompletedSigning']_vars

\* C25: a signing attempt for a SIGN_PENDING request that fails leaves the
\* request in FAILED_SIGN when it returns, never in SIGN_PENDING.
FailedSigningEndsInFailedSign ==
    [][\A k \in Calls :
          (calls[k].pc # "failed" /\ calls'[k].pc = "failed")
              => tx'[calls'[k].tx].status = "FAILED_SIGN"]_vars

(***************************************************************************)
(* process_approval under concurrent calls                                 *)
(***************************************************************************)
\* the unique index ix_approvals_tx_user left out
approvals_unique_unchecked(table, row) == FALSE

\* the unique index ix_approvals_tx_user on (tx_request_id, user_id): the
\* INSERT of row is refused when the table holds a row with the same pair
approvals_unique_violation(table, row) ==
    \E a \in table : a.tx = row.tx /\ a.user = row.user

\* the votes a session would count if it saw its own row alone
own_approval_only(committed, row) == {row}
\* process_approval, the SELECT before the count: under READ COMMITTED it
\* returns the rows committed by then and the session's own flushed row
all_approvals(committed, row) == committed \cup {row}

\* process_approval up to its INSERT: the request and the user's earlier vote
\* are read from the committed state; a failed check raises ValueError and
\* the call ends with 400
vote_load(k, t, u, decision) ==
    /\ calls[k].pc = "idle"
    /\ LET err == approval_refusal(
                      tx[t], u, \E a \in ApprovalsOf(t, approvals) : a.user = u)
       IN  calls' = [calls EXCEPT ![k] =
                        [pc |-> IF err = None THEN "loaded" ELSE "failed",
                         op |-> "approve", tx |-> t, user |-> u,
                         decision |-> decision, error |-> err,
                         base |-> Len(events[t]),
                         c |-> [Ctx(t) EXCEPT !.by = k]]]
    /\ UNCHANGED <<tx, approvals, permits, events, moves, refused, signatures,
                   sessions>>
    /\ AuditUnchanged
    /\ PolicyUnchanged
    /\ WorldUnchanged
    /\ VolumeUnchanged
    /\ LedgerUnchanged
    /\ ChainUnchanged

\* the rest of process_approval on the loaded request: the Approval row is
\* inserted, the vote is logged, the votes are counted (committed rows and
\* the session's own) and the request is moved; an INSERT that meets a
\* committed row of the same user raises IntegrityError
vote_run(k, prep, sign, bc) ==
    /\ calls[k].pc = "loaded"
    /\ calls[k].op = "approve"
    /\ \A j \in Calls \ {k} : calls[j].pc # "ran"
    /\ LET t == calls[k].tx
           row == [tx |-> t, user |-> calls[k].user,
                   decision |-> calls[k].decision]
           table == all_approvals(approvals, row)
           c1 == log(calls[k].c, IF row.decision = "APPROVED"
                                     THEN "TX_APPROVAL_RECEIVED"
                                     ELSE "TX_REJECTION_RECEIVED")
           approved_count ==
               Cardinality({a \in ApprovalsOf(t, table) : a.decision = "APPROVED"})
           c2 == IF row.decision = "REJECTED"
                     THEN transition_status(c1, "REJECTED")
                 ELSE IF threshold_reached(approved_count,
                                           c1.row.required_approvals)
                     THEN process_signing(c1, t, prep, sign, bc)
                 ELSE c1
       IN  IF approvals_unique_violation(approvals, row)
               THEN /\ calls' = [calls EXCEPT ![k].pc = "failed",
                                              ![k].error = "IntegrityError"]
                    /\ UNCHANGED <<signatures, broadcasts>>
               ELSE /\ calls' = [calls EXCEPT ![k].pc = "ran", ![k].c = c2]
                    /\ signatures' = signatures \cup c2.sigs
                    /\ broadcasts' = broadcasts \cup c2.sent
    /\ UNCHANGED <<tx, approvals, permits, events, moves, refused, sessions>>
    /\ AuditUnchanged
    /\ PolicyUnchanged
    /\ WorldUnchanged
    /\ VolumeUnchanged
    /\ LedgerUnchanged

\* the rest of process_approval while another call holds uncommitted rows:
\* the INSERT of the vote or of its audit event waits for that session and
\* then fails on a unique index; the session is rolled back
vote_conflict(k) ==
    /\ calls[k].pc = "loaded"
    /\ calls[k].op = "approve"
    /\ \E j \in Calls \ {k} : calls[j].pc = "ran"
    /\ calls' = [calls EXCEPT ![k].pc = "failed", ![k].error = "IntegrityError"]
    /\ UNCHANGED <<tx, approvals, permits, events, moves, refused, signatures,
                   sessions>>
    /\ AuditUnchanged
    /\ PolicyUnchanged
    /\ WorldUnchanged
    /\ VolumeUnchanged
    /\ LedgerUnchanged
    /\ ChainUnchanged

\* approve_tx_request commits the session
vote_commit(k) ==
    /\ calls[k].pc = "ran"
    /\ LET t == calls[k].tx
           c == calls[k].c
       IN  /\ approvals' = approvals \cup {[tx |-> t, user |-> calls[k].user,
                                           decision |-> calls[k].decision]}
           /\ tx' = [tx EXCEPT ![t] = onupdate(tx[t], c.row)]
           /\ permits' = [permits EXCEPT ![t] = c.permit]
           /\ events' = [events EXCEPT ![t] =
                             @ \o SubSeq(c.ev, calls[k].base + 1, Len(c.ev))]
           /\ moves' = [moves EXCEPT ![t] = @ \cup c.moves]
           /\ refused' = [refused EXCEPT ![t] = @ \cup c.refused]
    /\ calls' = [calls EXCEPT ![k].pc = "done"]
    /\ UNCHANGED <<signatures, sessions>>
    /\ AuditUnchanged
    /\ PolicyUnchanged
    /\ WorldUnchanged
    /\ VolumeUnchanged
    /\ LedgerUnchanged
    /\ ChainUnchanged

Decisions == {"APPROVED", "REJECTED"}

VoteLoad ==
    \E k \in Calls, t \in Tx, u \in Users, decision \in Decisions :
        vote_load(k, t, u, decision)
VoteRun == \E k \in Calls, prep \in BOOLEAN, sign \in BOOLEAN, bc \in BOOLEAN :
               vote_run(k, prep, sign, bc)
VoteConflict == \E k \in Calls : vote_conflict(k)
VoteCommit == \E k \in Calls : vote_commit(k)

NextVote ==
    \/ CreateTxRequest
    \/ VoteLoad
    \/ VoteRun
    \/ VoteConflict
    \/ VoteCommit

SpecVote == Init /\ [][NextVote]_vars

\* no vote is held by the creator of the request it refers to
NoSelfApproval ==
    \A a \in approvals : a.user # tx[a.tx].created_by

\* the call k started in this step is a vote of the request's creator
CreatorVotes(k) ==
    /\ calls[k].pc = "idle"
    /\ calls'[k].pc # "idle"
    /\ calls'[k].op = "approve"
    /\ calls'[k].user = tx[calls'[k].tx].created_by

\* C11: no Approval row ever has the user_id of its request's creator, and a
\* vote attempted by the creator fails with an error, creates no Approval
\* row and changes no state.
CreatorNeverApproves ==
    [][/\ NoSelfApproval'
       /\ \A k \in Calls :
              CreatorVotes(k) =>
                  /\ calls'[k].pc = "failed"
                  /\ calls'[k].error # None
                  /\ UNCHANGED <<tx, approvals, permits, events, moves,
                                 refused, signatures>>]_vars

\* the creator voted on their own request while it waited for approval and
\* the call was refused by the segregation-of-duties check
CreatorVoteRefused ==
    \E k \in Calls :
        /\ calls[k].pc = "failed"
        /\ calls[k].error = "creator cannot be approver"
        /\ tx[calls[k].tx].status = "APPROVAL_PENDING"
        /\ calls[k].user = tx[calls[k].tx].created_by

\* C12: for every request and user at most one Approval row exists, votes
\* submitted concurrently included.  (approvals holds one record per stored
\* row; the rows a commit adds are counted against the rows it finds.)
OneVotePerUser ==
    [][\A k \in Calls :
           (calls[k].pc = "ran" /\ calls'[k].pc = "done") =>
               ~\E a \in approvals :
                    a.tx = calls[k].tx /\ a.user = calls[k].user]_vars

\* a user's second vote, loaded before the first was committed, was refused
\* by the unique index after it
SecondVoteRefused ==
    \E k \in Calls, j \in Calls :
        /\ k # j
        /\ calls[k].pc = "done"
        /\ calls[j].pc = "failed"
        /\ calls[j].error = "IntegrityError"
        /\ calls[j].tx = calls[k].tx
        /\ calls[j].user = calls[k].user

(***************************************************************************)
(* create_tx_request under concurrent calls, deposits and the ledger check *)
(***************************************************************************)
\* Idempotency-Key header values; None: the header is absent
IdempotencyKeys == {None, "idem-1"}

\* the lookup left out
find_nothing(key) == None

\* create_tx_request, idempotency check: the id of the committed request
\* that carries the key, None without a key or without such a request
find_by_idempotency_key(key) ==
    IF key # None /\ \E t \in Tx : tx[t].idempotency_key = key
        THEN CHOOSE t \in Tx : tx[t].idempotency_key = key
        ELSE None

\* sum of the amounts of the CREDITED deposits (one MPC wallet in the model)
RECURSIVE SumCredited(_)
SumCredited(ds) ==
    IF ds = {} THEN 0
    ELSE LET d == CHOOSE x \in ds : TRUE
         IN  (IF deposits[d].status = "CREDITED" THEN deposits[d].amount ELSE 0)
             + SumCredited(ds \ {d})

\* create_tx_request, ledger check of an MPC wallet: the requested amount is
\* compared with the sum of the CREDITED deposits (both divided by 10^18 as
\* Decimal, which keeps the order of amounts below 10^28 wei)
balance_refusal(custody, amount) ==
    IF custody = "MPC_TECDSA" /\ amount > SumCredited(Deposits)
        THEN "Insufficient balance"
        ELSE None

\* a call that holds no loaded objects
NoCtx == <<>>

\* the TxRequest create_tx_request inserts
new_request(t, u, custody, key, amount) ==
    [Ctx(t) EXCEPT !.row = [NoRow EXCEPT !.status = "SUBMITTED",
                                         !.created_by = u,
                                         !.custody = custody,
                                         !.idempotency_key = key,
                                         !.amount = amount]]

\* create_tx_request up to its INSERT: the key is looked up among the
\* committed requests and a hit is returned at once; otherwise the wallet's
\* ledger is checked
create_load(k, u, key, custody, amount) ==
    /\ calls[k].pc = "idle"
    /\ LET hit == find_by_idempotency_key(key)
           err == IF hit # None THEN None ELSE balance_refusal(custody, amount)
       IN  calls' = [calls EXCEPT ![k] =
                        [pc |-> IF hit # None THEN "done"
                                ELSE IF err # None THEN "failed" ELSE "loaded",
                         op |-> "create", user |-> u, key |-> key,
                         custody |-> custody, amount |-> amount,
                         hit |-> hit # None, result |-> hit, error |-> err,
                         tx |-> None, c |-> NoCtx]]
    /\ UNCHANGED <<tx, approvals, permits, events, moves, refused, signatures,
                   sessions, deposits, broadcasts>>
    /\ AuditUnchanged
    /\ PolicyUnchanged
    /\ WorldUnchanged
    /\ VolumeUnchanged

\* the rest of create_tx_request: the row is inserted under a fresh id, the
\* creation is logged and the pipeline runs; an INSERT that meets a committed
\* request with the same key raises IntegrityError (unique idempotency_key)
create_run(k, t, pr, kyt, prep, sign, bc) ==
    /\ calls[k].pc = "loaded"
    /\ calls[k].op = "create"
    /\ \A j \in Calls \ {k} : calls[j].pc # "ran"
    /\ tx[t].status = None
    /\ LET c0 == new_request(t, calls[k].user, calls[k].custody, calls[k].key,
                             calls[k].amount)
           c1 == log(c0, "TX_REQUEST_CREATED")
           c2 == process_policy_v2(c1, t, pr, kyt, prep, sign, bc)
       IN  IF calls[k].key # None
              /\ \E x \in Tx : tx[x].idempotency_key = calls[k].key
               THEN /\ calls' = [calls EXCEPT ![k].pc = "failed",
                                              ![k].error = "IntegrityError"]
                    /\ UNCHANGED <<signatures, broadcasts>>
               ELSE /\ calls' = [calls EXCEPT ![k].pc = "ran", ![k].tx = t,
                                              ![k].c = c2]
                    /\ signatures' = signatures \cup c2.sigs
                    /\ broadcasts' = broadcasts \cup c2.sent
    /\ UNCHANGED <<tx, approvals, permits, events, moves, refused, sessions,
                   deposits>>
    /\ AuditUnchanged
    /\ PolicyUnchanged
    /\ WorldUnchanged
    /\ VolumeUnchanged

\* the rest of create_tx_request while another call holds uncommitted rows:
\* the INSERT of the request or of its audit event waits for that session
\* and then fails on a unique index; the session is rolled back
create_conflict(k) ==
    /\ calls[k].pc = "loaded"
    /\ calls[k].op = "create"
    /\ \E j \in Calls \ {k} : calls[j].pc = "ran"
    /\ calls' = [calls EXCEPT ![k].pc = "failed", ![k].error = "IntegrityError"]
    /\ UNCHANGED <<tx, approvals, permits, events, moves, refused, signatures,
                   sessions, deposits, broadcasts>>
    /\ AuditUnchanged
    /\ PolicyUnchanged
    /\ WorldUnchanged
    /\ VolumeUnchanged

\* the endpoint commits and answers with the request
create_commit(k) ==
    /\ calls[k].pc = "ran"
    /\ calls[k].op = "create"
    /\ LET t == calls[k].tx
           c == calls[k].c
       IN  /\ tx' = [tx EXCEPT ![t] = onupdate(tx[t], c.row)]
           /\ permits' = [permits EXCEPT ![t] = c.permit]
           /\ events' = [events EXCEPT ![t] = c.ev]
           /\ moves' = [moves EXCEPT ![t] = c.moves]
           /\ refused' = [refused EXCEPT ![t] = c.refused]
           /\ calls' = [calls EXCEPT ![k].pc = "done", ![k].result = t,
                                     ![k].c = NoCtx]
    /\ UNCHANGED <<approvals, signatures, sessions, deposits, broadcasts>>
    /\ AuditUnchanged
    /\ PolicyUnchanged
    /\ WorldUnchanged
    /\ VolumeUnchanged

\* ChainListener._process_deposit: an inbound transfer is recorded
process_deposit(d, amount, kyt) ==
    /\ deposits[d].status = None
    /\ deposits' = [deposits EXCEPT ![d] =
                        [status |-> "PENDING_ADMIN", amount |-> amount,
                         kyt_result |-> kyt]]
    /\ UNCHANGED <<tx, approvals, permits, events, moves, refused, signatures,
                   sessions, calls, broadcasts>>
    /\ AuditUnchanged
    /\ PolicyUnchanged
    /\ WorldUnchanged
    /\ VolumeUnchanged

\* POST /v1/deposits/{id}/approve
approve_deposit(d) ==
    /\ deposits[d].status \notin {None, "CREDITED", "REJECTED"}
    /\ deposits[d].kyt_result # "BLOCK"
    /\ deposits' = [deposits EXCEPT ![d].status = "CREDITED"]
    /\ UNCHANGED <<tx, approvals, permits, events, moves, refused, signatures,
                   sessions, calls, broadcasts>>
    /\ AuditUnchanged
    /\ PolicyUnchanged
    /\ WorldUnchanged
    /\ VolumeUnchanged

\* POST /v1/deposits/{id}/reject
reject_deposit(d) ==
    /\ deposits[d].status \notin {None, "CREDITED", "REJECTED"}
    /\ deposits' = [deposits EXCEPT ![d].status = "REJECTED"]
    /\ UNCHANGED <<tx, approvals, permits, events, moves, refused, signatures,
                   sessions, calls, broadcasts>>
    /\ AuditUnchanged
    /\ PolicyUnchanged
    /\ WorldUnchanged
    /\ VolumeUnchanged

CreateLoad ==
    \E k \in Calls, u \in Creators, key \in IdempotencyKeys,
       custody \in CustodyBackend, amount \in Amounts :
        create_load(k, u, key, custody, amount)
\* the policy results the concurrent create calls are followed with: a rule
\* that blocks and a rule that allows without KYT and without approvals
CreatePolicyResults ==
    {PolicyResult("RULE", "BLOCK", FALSE, FALSE, 0),
     PolicyResult("RULE", "ALLOW", FALSE, FALSE, 0)}

CreateRun ==
    \E k \in Calls, t \in Tx, pr \in CreatePolicyResults,
       prep \in BOOLEAN, sign \in BOOLEAN, bc \in BOOLEAN :
        create_run(k, t, pr, "ALLOW", prep, sign, bc)
CreateConflict == \E k \in Calls : create_conflict(k)
CreateCommit == \E k \in Calls : create_commit(k)
ProcessDeposit ==
    \E d \in Deposits, amount \in Amounts, kyt \in KytResults :
        process_deposit(d, amount, kyt)
ApproveDeposit == \E d \in Deposits : approve_deposit(d)
RejectDeposit == \E d \in Deposits : reject_deposit(d)

NextCreate ==
    \/ CreateLoad
    \/ CreateRun
    \/ CreateConflict
    \/ CreateCommit
    \/ ProcessDeposit
    \/ ApproveDeposit
    \/ RejectDeposit

SpecCreate == Init /\ [][NextCreate]_vars

\* the create call k was answered: with a request, or with the error of a
\* unique index (a call refused by the ledger check never reached the insert)
Answered(k) ==
    /\ calls[k].pc \in {"done", "failed"}
    /\ calls[k].op = "create"
    /\ calls[k].pc = "failed" => calls[k].error = "IntegrityError"

\* C13: create calls that carry the same idempotency key, sequential or
\* concurrent, all return the same request id, and one row at most carries
\* the key.
SameKeySameRequest ==
    /\ \A t1 \in Tx : \A t2 \in Tx :
           (tx[t1].idempotency_key # None
            /\ tx[t1].idempotency_key = tx[t2].idempotency_key) => t1 = t2
    /\ \A k \in Calls : \A j \in Calls \ {k} :
           (Answered(k) /\ Answered(j) /\ calls[k].key # None
            /\ calls[k].key = calls[j].key)
               => /\ calls[k].pc = "done"
                  /\ calls[j].pc = "done"
                  /\ calls[k].result = calls[j].result

\* the create call k started in this step carries a key that a committed
\* request already has
KeyHit(k) ==
    /\ calls[k].pc = "idle"
    /\ calls'[k].pc # "idle"
    /\ calls'[k].op = "create"
    /\ calls'[k].key # None
    /\ \E t \in Tx : tx[t].idempotency_key = calls'[k].key

\* C14: a create call whose idempotency key already exists returns the
\* stored request, whatever payload it carries, and writes nothing: no
\* request row, no audit event, no policy, KYT, approval or signing step.
KeyHitWritesNothing ==
    [][\A k \in Calls :
           KeyHit(k) =>
               /\ calls'[k].pc = "done"
               /\ tx[calls'[k].result].idempotency_key = calls'[k].key
               /\ UNCHANGED <<tx, approvals, permits, events, moves, refused,
                              signatures, deposits, broadcasts>>]_vars

\* a create call was answered from the stored request although it carried
\* another amount and another custody backend
KeyHitWithOtherPayload ==
    \E k \in Calls :
        /\ calls[k].pc = "done"
        /\ calls[k].op = "create"
        /\ calls[k].hit
        /\ calls[k].amount # tx[calls[k].result].amount
        /\ calls[k].custody # tx[calls[k].result].custody

(***************************************************************************)
(* The ledger of the MPC wallet: deposits, withdrawals up to FINALIZED     *)
(***************************************************************************)
\* withdrawals from the MPC wallet, without an Idempotency-Key header
LedgerCreateLoad ==
    \E k \in Calls, u \in Creators, amount \in Amounts :
        create_load(k, u, None, "MPC_TECDSA", amount)

\* the policy allows them without KYT and without approvals
LedgerCreateRun ==
    \E k \in Calls, t \in Tx, prep \in BOOLEAN :
        create_run(k, t, PolicyResult("RULE", "ALLOW", FALSE, FALSE, 0),
                   "ALLOW", prep, TRUE, TRUE)

NextLedger ==
    \/ ProcessDeposit
    \/ ApproveDeposit
    \/ RejectDeposit
    \/ LedgerCreateLoad
    \/ LedgerCreateRun
    \/ CreateConflict
    \/ CreateCommit
    \/ CompleteMpcSigning
    \/ CheckConfirmation
    \/ ListenerPoll

SpecLedger == Init /\ [][NextLedger]_vars

\* sum of the amounts of the FINALIZED requests of the MPC wallet
RECURSIVE SumFinalized(_)
SumFinalized(ts) ==
    IF ts = {} THEN 0
    ELSE LET t == CHOOSE x \in ts : TRUE
         IN  (IF tx[t].status = "FINALIZED" /\ tx[t].custody = "MPC_TECDSA"
                  THEN tx[t].amount ELSE 0)
             + SumFinalized(ts \ {t})

InFlight(t) ==
    /\ tx[t].nonce # NoNonce
    /\ tx[t].status \in {"SIGN_PENDING", "SIGNED", "BROADCAST_PENDING",
                         "BROADCASTED", "CONFIRMING"}

VoteMovedToSigning(k) ==
    \E i \in (calls[k].base + 1)..Len(calls[k].c.ev) :
        calls[k].c.ev[i] = StatusChanged("APPROVAL_PENDING", "SIGN_PENDING")

\* the call k commits an APPROVED vote in this step
ApprovedVoteCommits(k) ==
    /\ calls[k].pc = "ran"
    /\ calls'[k].pc = "done"
    /\ calls[k].op = "approve"
    /\ calls[k].decision = "APPROVED"

\* C17: an accepted APPROVED vote moves its request from APPROVAL_PENDING to
\* SIGN_PENDING if and only if the APPROVED votes of the request, this one
\* included, are at least required_approvals; a request of MPC custody that
\* it leaves in SIGN_PENDING holds an issued signing permit.
SigningIffThresholdReached ==
    [][\A k \in Calls :
           ApprovedVoteCommits(k) =>
               LET t == calls[k].tx
                   n == Cardinality({a \in ApprovalsOf(t, approvals') :
                                        a.decision = "APPROVED"})
               IN  /\ VoteMovedToSigning(k) <=> n >= tx'[t].required_approvals
                   /\ (VoteMovedToSigning(k) /\ tx'[t].status = "SIGN_PENDING"
                       /\ tx'[t].custody = "MPC_TECDSA")
                          => permits'[t].issued /\ valid_permit(permits'[t])]_vars

\* the second of two required votes was committed and the MPC request waits
\* for its signature with a permit; the first vote had left it pending
SecondVoteReachedThreshold ==
    \E k \in Calls : \E j \in Calls \ {k} :
        /\ calls[k].pc = "done" /\ calls[j].pc = "done"
        /\ calls[k].op = "approve" /\ calls[j].op = "approve"
        /\ calls[k].tx = calls[j].tx
        /\ calls[k].decision = "APPROVED" /\ calls[j].decision = "APPROVED"
        /\ VoteMovedToSigning(k)
        /\ ~VoteMovedToSigning(j)
        /\ tx[calls[k].tx].required_approvals = 2
        /\ tx[calls[k].tx].status = "SIGN_PENDING"
        /\ tx[calls[k].tx].custody = "MPC_TECDSA"
        /\ permits[calls[k].tx].issued

\* the request passed the approval gate towards new_status
GateWent(t, new_status) == \E m \in moves[t] : m[2] = new_status

PolicyEvaluated(t) == Exists(t) /\ tx[t].policy_result # NoPolicyResult

\* C19: after the policy step a request is in POLICY_BLOCKED if and only if
\* the engine's decision is BLOCK; with any other decision it went on to
\* KYT_PENDING when kyt_required is true and to KYT_SKIPPED when it is false.
BlockedIffDecisionBlock ==
    \A t \in Tx :
        PolicyEvaluated(t) =>
            /\ GateWent(t, "POLICY_BLOCKED")
                   <=> tx[t].policy_result.decision = "BLOCK"
            /\ tx[t].policy_result.decision # "BLOCK" =>
                   IF tx[t].policy_result.kyt_required
                       THEN <<"POLICY_EVAL_PENDING", "KYT_PENDING">> \in moves[t]
                       ELSE <<"POLICY_EVAL_PENDING", "KYT_SKIPPED">> \in moves[t]

\* the events the step appended to the audit trail of the request
NewEvents(t) == SubSeq(events'[t], Len(events[t]) + 1, Len(events'[t]))

\* the request leaves KYT_REVIEW in this step
LeavesReview(t) == tx[t].status = "KYT_REVIEW" /\ tx'[t].status # "KYT_REVIEW"

\* C20: a request under KYT review stays in KYT_REVIEW while its case is
\* PENDING; once the case is resolved it leaves for KYT_BLOCKED exactly when
\* the case is RESOLVED_BLOCK, and otherwise through the approval gate as
\* the stored policy result decides it, the policy not being evaluated again.
ReviewHeldUntilResolved ==
    [][\A t \in Tx :
           LeavesReview(t) =>
               /\ tx[t].kyt_case # "PENDING"
               /\ tx'[t].status = "KYT_BLOCKED"
                      <=> tx[t].kyt_case = "RESOLVED_BLOCK"
               /\ tx[t].kyt_case # "RESOLVED_BLOCK" =>
                      /\ Len(NewEvents(t)) > 0
                      /\ NewEvents(t)[1] =
                             StatusChanged("KYT_REVIEW",
                                 IF tx[t].policy_result.approval_required
                                    /\ tx[t].policy_result.approval_count > 0
                                     THEN "APPROVAL_PENDING"
                                     ELSE "APPROVAL_SKIPPED")
               /\ tx'[t].policy_result = tx[t].policy_result
               /\ \A i \in 1..Len(NewEvents(t)) :
                      NewEvents(t)[i].type # "TX_POLICY_EVALUATED"]_vars

(***************************************************************************)
(* PolicyEngineV2: groups, the rules of the policy set, evaluation         *)
(***************************************************************************)
\* the seeded default group, which holds the active policy set, and a group
\* without a policy set; Group.name orders them
Groups == {"retail", "vip"}
MaxRules == 2
RuleIds == {"RET-01", "RET-02"}
Priorities == {10, 20}
NoAmount == 0
AddressStatus == {"allowlist", "denylist", "unknown"}

\* PolicyRule.conditions as the model draws them: no condition, and an
\* amount bound with an address condition
Conditions ==
    {[amount_lte |-> NoAmount, address_in |-> None],
     [amount_lte |-> 1, address_in |-> "allowlist"]}

\* decision, kyt_required, approval_required, approval_count of a rule
RuleControls ==
    {<<"BLOCK", FALSE, FALSE, 0>>, <<"ALLOW", FALSE, FALSE, 0>>,
     <<"ALLOW", TRUE, TRUE, 1>>}

\* PolicyRule.matches
matches(rule, amount, address_status) ==
    /\ rule.conditions.amount_lte # NoAmount => ~(amount > rule.conditions.amount_lte)
    /\ rule.conditions.address_in # None => address_status = rule.conditions.address_in

\* sorted(rules, key = priority): Python's sort is stable
RECURSIVE SortedByPriority(_)
SortedByPriority(rs) ==
    IF rs = <<>> THEN <<>>
    ELSE LET i == CHOOSE i \in 1..Len(rs) : \A j \in 1..Len(rs) :
                      \/ rs[i].priority < rs[j].priority
                      \/ rs[i].priority = rs[j].priority /\ i <= j
         IN  <<rs[i]>> \o SortedByPriority(
                 [k \in 1..(Len(rs) - 1) |-> IF k < i THEN rs[k] ELSE rs[k + 1]])

\* PolicySet.compute_snapshot_hash: SHA-256 of the rules sorted by priority,
\* kept as the hashed list; a set that never had a rule has no hash
compute_snapshot_hash(rs) ==
    IF rs = <<>> THEN NoHash ELSE <<"sha256", SortedByPriority(rs)>>

\* PolicySet.rules as the database returns it: the relationship orders by
\* priority alone, rows of equal priority come in any order
DbOrders(rs) ==
    {p \in [1..Len(rs) -> 1..Len(rs)] :
        /\ \A i \in 1..Len(rs) : \A j \in 1..Len(rs) : i # j => p[i] # p[j]
        /\ \A i \in 1..Len(rs) : \A j \in 1..Len(rs) :
               i < j => rs[p[i]].priority <= rs[p[j]].priority}

\* GroupService.get_user_groups
get_user_groups(u) == {g \in Groups : <<g, u>> \in group_members}

\* GroupService.get_user_primary_group
get_user_primary_group(u) ==
    LET groups == get_user_groups(u)
    IN  IF groups # {}
            THEN IF default_group \in groups THEN default_group
                 ELSE IF "retail" \in groups THEN "retail" ELSE "vip"
            ELSE default_group

\* PolicyEngineV2._get_active_policy_set: the seeded group has the policy set
has_active_policy_set(g) == g = "retail"

\* a PolicyEvalResult with the fields that identify the policy set
EvalResult(matched, decision, kyt, appr, count, hash, group) ==
    [matched |-> matched, decision |-> decision, allowed |-> decision = "ALLOW",
     kyt_required |-> kyt, approval_required |-> appr, approval_count |-> count,
     policy_snapshot_hash |-> hash, group_id |-> group]

\* PolicyEngineV2.evaluate; order: the order the database returned the rules in
evaluate(u, amount, address_status, order) ==
    LET group == get_user_primary_group(u)
        rs == policy_rules
        hash == compute_snapshot_hash(rs)
        hits == {i \in 1..Len(rs) : matches(rs[order[i]], amount, address_status)}
        first == IF hits = {} THEN 0
                 ELSE order[CHOOSE i \in hits : \A j \in hits : i <= j]
        result ==
            IF group = None
                THEN EvalResult("NO_GROUP", "BLOCK", FALSE, FALSE, 0, NoHash, None)
            ELSE IF ~has_active_policy_set(group)
                THEN EvalResult("NO_POLICY", "BLOCK", FALSE, FALSE, 0, NoHash, group)
            ELSE IF first # 0
                THEN EvalResult(rs[first].rule_id, rs[first].decision,
                                rs[first].kyt_required, rs[first].approval_required,
                                rs[first].approval_count, hash, group)
            ELSE IF address_status = "denylist"
                THEN EvalResult("DEFAULT_DENY", "BLOCK", FALSE, FALSE, 0, hash, group)
            ELSE IF address_status = "unknown"
                THEN EvalResult("DEFAULT_UNKNOWN", "BLOCK", FALSE, FALSE, 0, hash, group)
            ELSE EvalResult("DEFAULT_ALLOW", "ALLOW", TRUE, TRUE, 1, hash, group)
        early == group = None \/ ~has_active_policy_set(group)
    IN  /\ order \in DbOrders(rs)
        /\ evaluations' =
               [done |-> TRUE, user |-> u, amount |-> amount,
                address_status |-> address_status,
                member_of |-> get_user_groups(u), rules |-> rs,
                winner |-> IF early THEN 0 ELSE first, result |-> result,
                logged |-> IF early THEN <<>> ELSE <<result>>]
        /\ UNCHANGED <<group_members, default_group, policy_rules>>

\* seed: the default group with its policy set and their assignment
seed_retail_group ==
    /\ default_group = None
    /\ default_group' = "retail"
    /\ UNCHANGED <<group_members, policy_rules, evaluations>>

\* GroupService.add_member
add_member(g, u) ==
    /\ g = "retail" => default_group = "retail"
    /\ <<g, u>> \notin group_members
    /\ group_members' = group_members \cup {<<g, u>>}
    /\ UNCHANGED <<default_group, policy_rules, evaluations>>

\* POST /policies/{id}/rules: PolicySetService.add_rule on the active set
add_rule(rule_id, priority, conditions, controls) ==
    /\ default_group = "retail"
    /\ Len(policy_rules) < MaxRules
    /\ \A i \in 1..Len(policy_rules) : policy_rules[i].rule_id # rule_id
    /\ policy_rules' = Append(policy_rules,
           [rule_id |-> rule_id, priority |-> priority, conditions |-> conditions,
            decision |-> controls[1], kyt_required |-> controls[2],
            approval_required |-> controls[3], approval_count |-> controls[4]])
    /\ UNCHANGED <<group_members, default_group, evaluations>>

\* everything outside the policy engine
EngineRestUnchanged ==
    /\ UNCHANGED <<tx, approvals, permits, events, moves, refused, signatures,
                   sessions, calls, deposits, broadcasts, daily_volume>>
    /\ AuditUnchanged
    /\ WorldUnchanged

NextPolicy ==
    \/ seed_retail_group /\ EngineRestUnchanged
    \/ \E g \in Groups, u \in Creators : add_member(g, u) /\ EngineRestUnchanged
    \/ \E id \in RuleIds, p \in Priorities, cnd \in Conditions, ctl \in RuleControls :
           add_rule(id, p, cnd, ctl) /\ EngineRestUnchanged
    \/ \E u \in Creators, amount \in Amounts, status \in AddressStatus,
          order \in DbOrders(policy_rules) :
           evaluate(u, amount, status, order) /\ EngineRestUnchanged

SpecPolicy == Init /\ [][NextPolicy]_vars

\* the rules of the evaluated set that matched the evaluated request
Matching ==
    {i \in 1..Len(evaluations.rules) :
        matches(evaluations.rules[i], evaluations.amount,
                evaluations.address_status)}

\* C21: the evaluation returns the decision and the control flags of the
\* matching rule with the smallest priority value, the one inserted first
\* among rules of equal priority.
FirstMatchByPriorityThenInsertion ==
    (evaluations.done /\ evaluations.result.policy_snapshot_hash # NoHash
     /\ Matching # {}) =>
        LET rs == evaluations.rules
            w == evaluations.winner
        IN  /\ w \in Matching
            /\ \A i \in Matching :
                   \/ rs[w].priority < rs[i].priority
                   \/ rs[w].priority = rs[i].priority /\ w <= i
            /\ evaluations.result.decision = rs[w].decision
            /\ evaluations.result.kyt_required = rs[w].kyt_required
            /\ evaluations.result.approval_required = rs[w].approval_required
            /\ evaluations.result.approval_count = rs[w].approval_count

\* C22: after an evaluation its matched rule is named, and is a rule of the
\* policy set whose snapshot hash is the hash the evaluation stored, at
\* every later state.
MatchedRulesExplainable ==
    evaluations.done =>
        /\ evaluations.result.matched # None
        /\ \E i \in 1..Len(policy_rules) :
               policy_rules[i].rule_id = evaluations.result.matched
        /\ compute_snapshot_hash(policy_rules) =
               evaluations.result.policy_snapshot_hash

\* C23: every evaluation, the ones that end in NO_GROUP or NO_POLICY
\* included, writes exactly one TX_POLICY_EVALUATED event carrying its
\* result.
EvaluationLoggedOnce ==
    evaluations.done => evaluations.logged = <<evaluations.result>>

\* C24: a user who is a member of no group is blocked with NO_GROUP, and an
\* evaluation never uses the policy of a group the user is not a member of.
NoGroupMeansBlocked ==
    evaluations.done =>
        /\ evaluations.member_of = {} =>
               /\ evaluations.result.matched = "NO_GROUP"
               /\ evaluations.result.decision = "BLOCK"
        /\ evaluations.result.group_id # None =>
               evaluations.result.group_id \in evaluations.member_of

\* C26: a signing request whose hash differs from the permit's tx_hash gets
\* no signature and leaves the permit unused: a request whose permit is bound
\* to another hash than the one the signer signs has no signature of the
\* REST path and an unused permit.
HashMismatchRejected ==
    \A t \in Tx :
        (permits[t].issued /\ permits[t].tx_hash # SigningHash(t)) =>
            /\ ~permits[t].is_used
            /\ \A sig \in signatures :
                   (sig.tx = t /\ sig.path = "MPC_TECDSA") =>
                       sig.msg = sig.permit.tx_hash

\* a check of t's receipt found status 0 in this step: the write of
\* FAILED_BROADCAST over CONFIRMING was made or refused
SawRevert(t) ==
    <<"CONFIRMING", "FAILED_BROADCAST">> \in
        (moves'[t] \cup refused'[t]) \ (moves[t] \cup refused[t])

\* C28: a check that finds receipt status 0 for a CONFIRMING request, by the
\* chain listener or by check_confirmation, leaves the request in
\* FAILED_BROADCAST.
RevertedEndsInFailedBroadcast ==
    [][\A t \in Tx :
          (tx[t].status = "CONFIRMING" /\ SawRevert(t))
              => tx'[t].status = "FAILED_BROADCAST"]_vars

\* C30: a signed_tx that is set is never overwritten by a later signing call
\* or session finalization.
SignedTxWrittenOnce ==
    [][\A t \in Tx :
          tx[t].signed_tx # NoHash => tx'[t].signed_tx = tx[t].signed_tx]_vars

\* the FINALIZED requests of the MPC wallet
FinalizedOfMpc == {t \in Tx : tx[t].status = "FINALIZED"
                              /\ tx[t].custody = "MPC_TECDSA"}

\* C29: the daily volume of a wallet counts each of its FINALIZED transfers
\* once, with its amount, whichever path finalized it, and counts no
\* transfer that is not FINALIZED.
VolumeCountsEachFinalized ==
    /\ daily_volume["MPC_TECDSA"].tx_count = Cardinality(FinalizedOfMpc)
    /\ daily_volume["MPC_TECDSA"].total_amount = SumFinalized(Tx)

(***************************************************************************)
(* MPC sessions and their deadline                                         *)
(***************************************************************************)
\* time passes: utcnow() moves beyond expires_at (created_at + 5 minutes) of
\* a session that is still in ConnectionManager.sessions; nothing reads the
\* field, so nothing else changes
session_expires(s) ==
    /\ sessions[s].state = "active"
    /\ ~sessions[s].expired
    /\ sessions' = [sessions EXCEPT ![s].expired = TRUE]
    /\ UNCHANGED <<tx, approvals, permits, events, moves, refused, signatures>>
    /\ AuditUnchanged
    /\ PolicyUnchanged
    /\ WorldUnchanged
    /\ VolumeUnchanged
    /\ LedgerUnchanged
    /\ ChainUnchanged
    /\ CallsUnchanged

NextTimeout ==
    \/ CreateTxRequest
    \/ HandleSignStart
    \/ HandleSignRoundFinal
    \/ HandleSignRoundError
    \/ \E s \in Sessions : session_expires(s)

\* time passes whatever the parties do; the browser and the signer node are
\* not bound to send their next message
SpecTimeout ==
    Init /\ [][NextTimeout]_vars /\ WF_vars(\E s \in Sessions : session_expires(s))

\* C27: a signing session that is unfinished at its deadline is eventually
\* taken out of the active sessions.
TimedOutSessionReleased ==
    \A s \in Sessions :
        (sessions[s].state = "active" /\ sessions[s].expired)
            ~> (sessions[s].state # "active")

\* the vote of call k is committed in this step and applies a transition of
\* the request it loaded in APPROVAL_PENDING
VoteAppliesTransition(k) ==
    /\ calls[k].pc = "ran"
    /\ calls'[k].pc = "done"
    /\ calls[k].c.row.status # "APPROVAL_PENDING"

\* C31: the transitions of one request are totally ordered: a call that
\* applies a transition from the state it observed finds the request still
\* in that state, so two concurrent calls never both move the request from
\* the same observed state.
TransitionsTotallyOrdered ==
    [][\A k \in Calls :
          VoteAppliesTransition(k) =>
              tx[calls[k].tx].status = "APPROVAL_PENDING"]_vars

(***************************************************************************)
(* KYTService.evaluate_outbound                                            *)
(***************************************************************************)
\* the list of the settings the recipient is on (None: on neither)
LocalLists == {None, "blacklist", "graylist"}

\* what the BitOK service does with a registered attempt: it reports a risk
\* level, or it cannot be reached
RemoteAnswers == {"none", "low", "medium", "high", "severe", "unreachable"}

\* BitOKIntegration.check_transfer_outbound with bitok_enabled: the risk
\* level through _risk_level_to_result, an unreachable service through
\* _fallback_response
check_transfer_outbound(st, answer) ==
    IF answer = "unreachable"
        THEN IF st.bitok_fallback_on_error THEN "UNCHECKED" ELSE "ERROR"
    ELSE IF answer \in {"none", "low"} THEN "ALLOW"
    ELSE IF answer = "severe" THEN "BLOCK"
    ELSE "REVIEW"

\* KYTService._bitok_to_kyt_result
bitok_to_kyt_result(bitok_result) ==
    IF bitok_result \in {"UNCHECKED", "ERROR"} THEN "UNCHECKED" ELSE bitok_result

\* the remote verdict replaces the local one
remote_verdict_wins(result, bitok_result) ==
    IF bitok_result = "UNCHECKED" THEN result ELSE bitok_result

\* evaluate_outbound, step 2: the local result combined with the mapped
\* result of BitOK
more_restrictive(result, bitok_result) ==
    IF bitok_result = "BLOCK" THEN "BLOCK"
    ELSE IF bitok_result = "REVIEW" /\ result = "ALLOW" THEN "REVIEW"
    ELSE result

\* KYTService.evaluate_outbound: what it called, what it returns and whether
\* it opened a KYTCase
evaluate_outbound(st, list, answer) ==
    LET local == IF list = "blacklist" THEN "BLOCK"
                 ELSE IF list = "graylist" THEN "REVIEW" ELSE "ALLOW"
        called == local # "BLOCK" /\ st.bitok_enabled
        remote == IF called THEN check_transfer_outbound(st, answer) ELSE None
        result == IF called
                      THEN more_restrictive(local, bitok_to_kyt_result(remote))
                      ELSE local
    IN  [done |-> TRUE, local |-> local, remote |-> remote, called |-> called,
         result |-> result, case |-> result = "REVIEW", settings |-> st]

\* the recipient of request t is screened
screen(t, list, answer) ==
    /\ screening' = [screening EXCEPT ![t] = evaluate_outbound(settings, list, answer)]
    /\ UNCHANGED <<tx, approvals, permits, events, moves, refused, signatures,
                   sessions, calls, deposits, broadcasts, daily_volume,
                   wallet_status, settings, listener, chain, inbound, permit_check>>
    /\ AuditUnchanged
    /\ PolicyUnchanged

\* the service is started with any values of the two BitOK settings
InitKyt ==
    /\ InitCore
    /\ wallet_status = [w \in CustodyBackend |-> "ACTIVE"]
    /\ settings \in [bitok_enabled : BOOLEAN, bitok_fallback_on_error : BOOLEAN]

NextKyt ==
    \E t \in Tx, list \in LocalLists, answer \in RemoteAnswers :
        screen(t, list, answer)

SpecKyt == InitKyt /\ [][NextKyt]_vars

KytOrder == [ALLOW |-> 0, REVIEW |-> 1, BLOCK |-> 2]

\* C32: the verdict of a screening is the more restrictive of the local
\* verdict and the remote verdict under BLOCK > REVIEW > ALLOW, the local
\* verdict where there is no remote one; a recipient on the local deny list
\* gets BLOCK and the remote provider is not called.
MoreRestrictiveWins ==
    \A t \in Tx :
        screening[t].done =>
            LET sc == screening[t]
            IN  /\ sc.local = "BLOCK" => (sc.result = "BLOCK" /\ ~sc.called)
                /\ ~sc.called => sc.result = sc.local
                /\ (sc.called /\ sc.remote \in DOMAIN KytOrder) =>
                       /\ sc.result \in {sc.local, sc.remote}
                       /\ KytOrder[sc.result] >= KytOrder[sc.local]
                       /\ KytOrder[sc.result] >= KytOrder[sc.remote]

\* a recipient on the gray list was screened and the remote verdict was ALLOW
GraylistedWithRemoteAllow ==
    \E t \in Tx :
        /\ screening[t].done
        /\ screening[t].called
        /\ screening[t].local = "REVIEW"
        /\ screening[t].remote = "ALLOW"

\* C33: with the remote screener enabled, unreachable and the fallback flag
\* disabled the verdict is REVIEW, never ALLOW.
UnreachableMeansReview ==
    \A t \in Tx :
        (/\ screening[t].done
         /\ screening[t].called
         /\ screening[t].remote = "ERROR"
         /\ ~screening[t].settings.bitok_fallback_on_error)
            => (screening[t].result # "ALLOW" /\ screening[t].case)

(***************************************************************************)
(* Wallets and their status                                                *)
(***************************************************************************)
WalletStatus == {"PENDING_KEYGEN", "ACTIVE", "SUSPENDED", "ARCHIVED"}

\* WalletService.finalize_mpc_wallet: the wallet gets its address and
\* becomes ACTIVE
finalize_mpc_wallet(w) ==
    /\ wallet_status[w] = "PENDING_KEYGEN"
    /\ wallet_status' = [wallet_status EXCEPT ![w] = "ACTIVE"]
    /\ UNCHANGED <<tx, approvals, permits, events, moves, refused, signatures,
                   sessions, calls, deposits, broadcasts, daily_volume,
                   settings, screening, listener, chain, inbound, permit_check>>
    /\ AuditUnchanged
    /\ PolicyUnchanged

\* the wallets table holds any row its columns allow: no wallet, or a wallet
\* in one of the states of WalletStatus (a dev-signer wallet is never in
\* PENDING_KEYGEN)
InitWallet ==
    /\ InitCore
    /\ settings = DefaultSettings
    /\ wallet_status \in [CustodyBackend -> WalletStatus \cup {None}]
    /\ wallet_status["DEV_SIGNER"] # "PENDING_KEYGEN"

NextWallet ==
    \/ CreateTxRequest
    \/ \E w \in CustodyBackend : finalize_mpc_wallet(w)

SpecWallet == InitWallet /\ [][NextWallet]_vars

deposit_load(k, d, op) ==
    /\ calls[k].pc = "idle"
    /\ deposits[d].status # None
    /\ LET refuse ==
               \/ deposits[d].status \in {"CREDITED", "REJECTED"}
               \/ op = "approve" /\ deposits[d].kyt_result = "BLOCK"
       IN  calls' = [calls EXCEPT ![k] =
                        [pc |-> IF refuse THEN "failed" ELSE "loaded",
                         tx |-> None, op |-> op, deposit |-> d]]
    /\ UNCHANGED <<tx, approvals, permits, events, moves, refused, signatures,
                   sessions, deposits, broadcasts>>
    /\ AuditUnchanged
    /\ PolicyUnchanged
    /\ WorldUnchanged
    /\ VolumeUnchanged

\* the rest of the endpoint: the status is assigned on the loaded row, the
\* audit event is logged and the session commits its UPDATE
deposit_commit(k) ==
    /\ calls[k].pc = "loaded"
    /\ calls[k].op \in {"approve", "reject"}
    /\ "deposit" \in DOMAIN calls[k]
    /\ deposits' = [deposits EXCEPT ![calls[k].deposit].status =
                        IF calls[k].op = "approve" THEN "CREDITED" ELSE "REJECTED"]
    /\ calls' = [calls EXCEPT ![k].pc = "done"]
    /\ UNCHANGED <<tx, approvals, permits, events, moves, refused, signatures,
                   sessions, broadcasts>>
    /\ AuditUnchanged
    /\ PolicyUnchanged
    /\ WorldUnchanged
    /\ VolumeUnchanged

NextDeposit ==
    \/ ProcessDeposit
    \/ \E k \in Calls, d \in Deposits, op \in {"approve", "reject"} :
           deposit_load(k, d, op)
    \/ \E k \in Calls : deposit_commit(k)

SpecDeposit == Init /\ [][NextDeposit]_vars

\* C35: a Deposit starts in PENDING_ADMIN and only moves from PENDING_ADMIN
\* to CREDITED or to REJECTED; once CREDITED or REJECTED it never changes,
\* concurrent credit and reject calls included.
DepositDecidedOnce ==
    [][\A d \in Deposits :
          deposits'[d].status # deposits[d].status =>
              \/ deposits[d].status = None
                 /\ deposits'[d].status = "PENDING_ADMIN"
              \/ deposits[d].status = "PENDING_ADMIN"
                 /\ deposits'[d].status \in {"CREDITED", "REJECTED"}]_vars

(***************************************************************************)
(* The chain listener's loop and its deposit scan                          *)
(***************************************************************************)
\* hashes of the value transfers sent to the address of the DEV_SIGNER wallet
TxHashes == {"0xa", "0xb"}
\* blocks the node mines after block 0
MaxBlocks == 3
\* a block without a transfer to a monitored address
NoTransfer == [tx_hash |-> None, value |-> 0]
\* the value in wei of a transfer: get_incoming_transfers wants it positive
TransferValue == 1
\* _check_deposits: how far the first look goes back, blocks scanned per tick
LookBack == 10
BatchSize == 10

Max(a, b) == IF a >= b THEN a ELSE b
Min(a, b) == IF a <= b THEN a ELSE b

ListenerRestUnchanged ==
    /\ UNCHANGED <<approvals, permits, refused, signatures, sessions, calls,
                   deposits, broadcasts, wallet_status, settings, screening,
                   permit_check>>
    /\ AuditUnchanged
    /\ PolicyUnchanged
    /\ VolumeUnchanged

\* the node mines the next block: without a transfer, or with one transfer
\* of a positive value that no earlier block holds
mine(h) ==
    /\ Len(chain) < MaxBlocks
    /\ \A b \in 1..Len(chain) : chain[b].tx_hash # h
    /\ chain' = Append(chain, [tx_hash |-> h, value |-> TransferValue])
    /\ UNCHANGED <<tx, events, moves, listener, inbound>>
    /\ ListenerRestUnchanged

mine_empty ==
    /\ Len(chain) < MaxBlocks
    /\ chain' = Append(chain, NoTransfer)
    /\ UNCHANGED <<tx, events, moves, listener, inbound>>
    /\ ListenerRestUnchanged

\* WalletService.get_all_addresses: the wallets that have an address
get_all_addresses ==
    {w \in CustodyBackend : wallet_status[w] \notin {None, "PENDING_KEYGEN"}}

\* EthereumService.get_incoming_transfers: the blocks of from_block..to_block
\* holding a transfer; a block whose get_block returned None (fetched is the
\* set of blocks the node answered for) is passed over
get_incoming_transfers(from_block, to_block, fetched) ==
    {b \in from_block..to_block : b \in fetched /\ chain[b].tx_hash # None}

\* the loop of _check_deposits over the transfers, in block order, each one
\* through ChainListener._process_deposit: a transfer with a Deposit row is
\* passed over, another one gets a row. _process_deposit raises on the
\* transfer of block failing (NoBlock: on none), before it added the row or
\* (partial) after it did and before the screening result was set; the
\* transfers after it are not reached
RECURSIVE process_deposits(_, _, _, _, _, _)
process_deposits(rows, b, hits, failing, partial, kyts) ==
    IF b > Len(chain) THEN rows
    ELSE IF b \notin hits
        THEN process_deposits(rows, b + 1, hits, failing, partial, kyts)
    ELSE LET h == chain[b].tx_hash
             existing == \E i \in 1..Len(rows) : rows[i].tx_hash = h
             row == [tx_hash |-> h, amount |-> chain[b].value,
                     kyt_result |-> IF b = failing THEN None ELSE kyts[h],
                     status |-> "PENDING_ADMIN"]
         IN  IF b = failing
                 THEN IF partial /\ ~existing THEN Append(rows, row) ELSE rows
             ELSE process_deposits(IF existing THEN rows ELSE Append(rows, row),
                                   b + 1, hits, failing, partial, kyts)

\* _check_deposits, the block the scan starts after and the range it covers
scan_start(last) ==
    IF last = NoBlock THEN Max(0, Len(chain) - LookBack) ELSE last
from_block(last) == scan_start(last) + 1
to_block(last) == Min(from_block(last) + BatchSize, Len(chain))

\* ChainListener._check_deposits: the new _last_processed_block and the rows
\* of the deposits table as the session holds them
check_deposits(last, rpc_ok, fetched, failing, partial, kyts) ==
    LET current_block == Len(chain)
        hits == get_incoming_transfers(from_block(last), to_block(last), fetched)
    IN  IF ~rpc_ok THEN [last |-> last, rows |-> inbound]
        ELSE IF current_block <= scan_start(last)
            THEN [last |-> scan_start(last), rows |-> inbound]
        ELSE IF get_all_addresses = {}
            THEN [last |-> to_block(last), rows |-> inbound]
        ELSE [last |-> IF failing \in hits THEN scan_start(last)
                                           ELSE to_block(last),
              rows |-> process_deposits(inbound, 1, hits, failing, partial, kyts)]

\* ChainListener._check_confirmations for one request
confirmations_checked(t, answers) ==
    IF tx[t].status = "CONFIRMING" /\ tx[t].tx_hash # NoHash
        THEN listener_check(Ctx(t), answers[t])
        ELSE Ctx(t)

\* the receipts the node can answer a tick with
TickAnswers ==
    {a \in [Tx -> ConfirmationAnswers \cup {NoReceipt}] :
        \A t \in Tx :
            IF tx[t].status = "CONFIRMING" /\ tx[t].tx_hash # NoHash
                THEN a[t] \in 0..ConfirmationBlocks => a[t] >= tx[t].confirmations
                ELSE a[t] = NoReceipt}

\* ChainListener.start, its first step: the flag is set and the loop entered
listener_start ==
    /\ listener.pc = "idle"
    /\ listener' = [listener EXCEPT !.running = TRUE, !.pc = "tick"]
    /\ UNCHANGED <<tx, events, moves, chain, inbound>>
    /\ ListenerRestUnchanged

\* ChainListener.start, the try around _poll: where the loop goes on
after_poll_uncaught(raised) == IF raised THEN "exited" ELSE "sleep"
after_poll(raised) == "sleep"

\* one iteration of the loop: ChainListener._poll, whose commit succeeds or
\* raises, and what start does with the outcome
listener_tick(answers, rpc_ok, fetched, failing, partial, kyts, commit_ok) ==
    LET r == check_deposits(listener.last_processed_block, rpc_ok, fetched,
                            failing, partial, kyts)
        res(t) == confirmations_checked(t, answers)
    IN  /\ listener.pc = "tick"
        /\ IF commit_ok
               THEN /\ tx' = [t \in Tx |-> onupdate(tx[t], res(t).row)]
                    /\ events' = [t \in Tx |-> res(t).ev]
                    /\ moves' = [t \in Tx |-> res(t).moves]
                    /\ inbound' = r.rows
               ELSE UNCHANGED <<tx, events, moves, inbound>>
        /\ listener' = [listener EXCEPT !.pc = after_poll(~commit_ok),
                                        !.failed = ~commit_ok,
                                        !.last_processed_block = r.last]
        /\ UNCHANGED chain
        /\ ListenerRestUnchanged

\* ChainListener.start after asyncio.sleep: the flag is looked at
listener_wake ==
    /\ listener.pc = "sleep"
    /\ listener' = [listener EXCEPT
                        !.pc = IF listener.running THEN "tick" ELSE "exited"]
    /\ UNCHANGED <<tx, events, moves, chain, inbound>>
    /\ ListenerRestUnchanged

\* the shutdown half of lifespan: ChainListener.stop clears the flag, the
\* task is cancelled and awaited. Nothing of the task runs in between, so
\* its next step is the CancelledError at the await it stands at, which no
\* "except Exception" catches: a tick under way is given up uncommitted
shutdown ==
    /\ ~listener.stopping
    /\ listener' = [listener EXCEPT !.running = FALSE, !.stopping = TRUE,
                                    !.pc = "exited"]
    /\ UNCHANGED <<tx, events, moves, chain, inbound>>
    /\ ListenerRestUnchanged

\* the inputs of a tick that it looks at: the blocks of the scanned range
\* the node answers for, the transfer of that range _process_deposit raises
\* on, the screening results of the transfers that get a row
ListenerTick ==
    LET last == listener.last_processed_block
        range == from_block(last)..to_block(last)
        unseen(h) == \A i \in 1..Len(inbound) : inbound[i].tx_hash # h
    IN  \E answers \in TickAnswers, rpc_ok \in BOOLEAN,
           fetched \in SUBSET range, commit_ok \in BOOLEAN :
         \E failing \in get_incoming_transfers(from_block(last), to_block(last),
                                               fetched) \cup {NoBlock},
            partial \in BOOLEAN,
            kyts \in [TxHashes -> KytResults] :
            /\ ~rpc_ok => fetched = range /\ failing = NoBlock
            /\ failing = NoBlock => ~partial
            /\ \A h \in TxHashes :
                  (\A b \in range : b \in fetched /\ b # failing
                                        => chain[b].tx_hash # h)
                     \/ ~unseen(h) \/ ~rpc_ok
                      => kyts[h] = "ALLOW"
            /\ listener_tick(answers, rpc_ok, fetched, failing, partial, kyts,
                             commit_ok)

NextListener ==
    \/ \E h \in TxHashes : mine(h)
    \/ mine_empty
    \/ listener_start
    \/ ListenerTick
    \/ listener_wake
    \/ shutdown

\* the event loop runs a task that is ready: a started tick ends, a sleep
\* ends, a created task starts
SpecListener ==
    /\ Init
    /\ [][NextListener]_vars
    /\ WF_vars(listener_start)
    /\ WF_vars(ListenerTick)
    /\ WF_vars(listener_wake)

\* C36: an exception inside a tick never ends the chain listener's loop:
\* the loop has ended only if stop was requested, until stop is requested
\* every tick that ended (failed or not) is followed by another one, and
\* once stop is requested no tick begins.
ListenerSurvivesFailedTicks ==
    /\ [](listener.pc = "exited" => listener.stopping)
    /\ (listener.pc = "sleep") ~> (listener.pc = "tick" \/ listener.stopping)
    /\ [][listener'.stopping =>
              ~(listener.pc # "tick" /\ listener'.pc = "tick")]_vars

TickAfterFailedTick ==
    /\ listener.pc = "tick"
    /\ listener.failed
    /\ ~listener.stopping

\* C40: every transfer to a monitored address in a block the listener has
\* gone past (a block up to _last_processed_block) has exactly one Deposit
\* row, whatever failed during the ticks.
ScannedTransfersRecordedOnce ==
    \A b \in 1..Len(chain) :
        (/\ listener.last_processed_block # NoBlock
         /\ b <= listener.last_processed_block
         /\ chain[b].tx_hash # None
         /\ get_all_addresses # {})
            => Cardinality({i \in 1..Len(inbound) :
                               inbound[i].tx_hash = chain[b].tx_hash}) = 1

(***************************************************************************)
(* Refused transitions and the caller                                      *)
(***************************************************************************)
\* C37: when the guarded primitive refuses a transition, the entry point
\* stops and tells its caller: a confirmation check in which a transition
\* was refused is not answered like a successful one (status 200 with the
\* request), and it wrote nothing to the request.
RefusedTransitionReported ==
    \A t \in Tx : \A confirmations \in ConfirmationAnswers :
        LET c == confirmation_checked(Ctx(t), confirmations)
        IN  (/\ tx[t].status = "CONFIRMING"
             /\ tx[t].tx_hash # NoHash
             /\ c.refused # refused[t])
                => /\ check_tx_confirmation_response(c).status_code # 200
                   /\ c.row = tx[t]

(***************************************************************************)
(* Concurrent votes and the threshold                                      *)
(***************************************************************************)
ApprovedVotes(t) ==
    {a \in ApprovalsOf(t, approvals) : a.decision = "APPROVED"}

\* C38: however the votes of distinct users overlap, a request whose
\* committed APPROVED votes reach required_approvals (and that no vote
\* rejected) is not left in APPROVAL_PENDING: the commit that brought the
\* last needed vote also took the request to SIGN_PENDING.
ThresholdNeverMissed ==
    \A t \in Tx :
        (/\ tx[t].status = "APPROVAL_PENDING"
         /\ \A a \in ApprovalsOf(t, approvals) : a.decision = "APPROVED")
            => Cardinality(ApprovedVotes(t)) < tx[t].required_approvals

\* two votes of distinct users were both loaded before either was committed,
\* both are committed, and together they completed the two required approvals
OverlappingVotesCompleted ==
    \E j, k \in Calls :
        /\ j # k
        /\ calls[j].pc = "done" /\ calls[k].pc = "done"
        /\ calls[j].op = "approve" /\ calls[k].op = "approve"
        /\ calls[j].tx = calls[k].tx
        /\ calls[j].user # calls[k].user
        /\ calls[j].base = calls[k].base
        /\ tx[calls[j].tx].required_approvals = 2
        /\ Cardinality(ApprovedVotes(calls[j].tx)) = 2
        /\ <<"APPROVAL_PENDING", "SIGN_PENDING">> \in moves[calls[j].tx]

(***************************************************************************)
(* The signing permit in full: hash, signature, validation                 *)
(***************************************************************************)
\* datetime.utcnow() values
Times == 0..2
\* the content columns of a permit a writer to the database can alter
PermitColumns ==
    {"tx_request_id", "wallet_id", "keyset_id", "tx_hash", "kyt_result",
     "kyt_snapshot", "policy_result", "policy_snapshot", "approval_snapshot",
     "audit_anchor_hash", "expires_at"}
\* the values a column is issued with or altered to
PermitValues(column) ==
    CASE column = "tx_request_id" -> Tx
      [] column = "wallet_id" -> CustodyBackend
      [] column = "keyset_id" -> {"keyset-1", "keyset-2"}
      [] column = "tx_hash" -> {SigningHash(t) : t \in Tx}
      [] column = "kyt_result" -> {"ALLOW", "SKIPPED"}
      [] column = "kyt_snapshot" -> {"kyt-snapshot-1", "kyt-snapshot-2"}
      [] column = "policy_result" -> {"ALLOWED", "BLOCKED"}
      [] column = "policy_snapshot" -> {"policy-snapshot-1", "policy-snapshot-2"}
      [] column = "approval_snapshot" ->
             {[count |-> 1, by |-> "bob"], [count |-> 1, by |-> "carol"]}
      [] column = "audit_anchor_hash" -> {"anchor-1", "anchor-2"}
      [] column = "expires_at" -> Times

\* issue_signing_permit: the SHA-256 of permit_content, the dict built from
\* the permit's id and the arguments
permit_hash(c) ==
    <<"sha256", c.id, c.tx_request_id, c.wallet_id, c.keyset_id, c.tx_hash,
      c.kyt_result, c.policy_result, c.approval_snapshot.count,
      c.audit_anchor_hash, c.issued_at, c.expires_at>>

\* hmac.new(self.permit_signing_key, permit_hash.encode(), sha256)
permit_signature(hash) == <<"hmac", "permit_signing_key", hash>>

\* MPCCoordinator.issue_signing_permit with every argument
SigningPermit(tx_request_id, tx_hash, issued_at, ttl_seconds) ==
    LET c == [id |-> "permit-1", tx_request_id |-> tx_request_id,
              wallet_id |-> "MPC_TECDSA", keyset_id |-> "keyset-1",
              tx_hash |-> tx_hash, kyt_result |-> "ALLOW",
              kyt_snapshot |-> "kyt-snapshot-1", policy_result |-> "ALLOWED",
              policy_snapshot |-> "policy-snapshot-1",
              approval_snapshot |-> [count |-> 1, by |-> "bob"],
              audit_anchor_hash |-> "anchor-1", issued_at |-> issued_at,
              expires_at |-> issued_at + ttl_seconds]
    IN  [id |-> c.id, tx_request_id |-> c.tx_request_id,
         wallet_id |-> c.wallet_id, keyset_id |-> c.keyset_id,
         tx_hash |-> c.tx_hash, kyt_result |-> c.kyt_result,
         kyt_snapshot |-> c.kyt_snapshot, policy_result |-> c.policy_result,
         policy_snapshot |-> c.policy_snapshot,
         approval_snapshot |-> c.approval_snapshot,
         audit_anchor_hash |-> c.audit_anchor_hash,
         permit_hash |-> permit_hash(c),
         signature |-> permit_signature(permit_hash(c)),
         issued_at |-> c.issued_at, expires_at |-> c.expires_at,
         is_used |-> FALSE, is_revoked |-> FALSE]

\* MPCCoordinator.validate_signing_permit on the row in full, at time now:
\* the message it returns
validate_permit_row(permit, tx_hash, now) ==
    IF permit.is_used THEN "Permit already used"
    ELSE IF permit.is_revoked THEN "Permit revoked"
    ELSE IF now > permit.expires_at THEN "Permit expired"
    ELSE IF permit.tx_hash # tx_hash THEN "tx_hash mismatch"
    ELSE IF permit.signature # permit_signature(permit.permit_hash)
        THEN "Invalid permit signature"
    ELSE "Valid"

PermitRestUnchanged ==
    /\ UNCHANGED <<tx, approvals, permits, events, moves, refused, signatures,
                   sessions, calls, deposits, broadcasts, wallet_status,
                   settings, screening, listener, chain, inbound>>
    /\ AuditUnchanged
    /\ PolicyUnchanged
    /\ VolumeUnchanged

\* a permit is issued for a request and stored
permit_issued(t, issued_at, ttl_seconds) ==
    /\ ~permit_check.issued
    /\ permit_check' = [issued |-> TRUE,
                        permit |-> SigningPermit(t, SigningHash(t), issued_at,
                                                 ttl_seconds),
                        altered |-> {}, valid |-> None]
    /\ PermitRestUnchanged

\* a writer to the database alters one content column of the stored row;
\* permit_hash and signature stay as issued
permit_altered(column, value) ==
    /\ permit_check.issued
    /\ permit_check.valid = None
    /\ permit_check.altered = {}
    /\ permit_check.permit[column] # value
    /\ permit_check' = [permit_check EXCEPT !.permit[column] = value,
                                            !.altered = {column}]
    /\ PermitRestUnchanged

\* the stored row is validated for the signing of a message
permit_validated(tx_hash, now) ==
    /\ permit_check.issued
    /\ permit_check.valid = None
    /\ now >= permit_check.permit.issued_at
    /\ permit_check' = [permit_check EXCEPT
                            !.valid = validate_permit_row(permit_check.permit,
                                                          tx_hash, now)]
    /\ PermitRestUnchanged

NextPermit ==
    \/ \E t \in Tx, issued_at \in {0, 1}, ttl_seconds \in {1} :
           permit_issued(t, issued_at, ttl_seconds)
    \/ \E column \in PermitColumns :
           \E value \in PermitValues(column) : permit_altered(column, value)
    \/ \E t \in Tx, now \in Times : permit_validated(SigningHash(t), now)

SpecPermit == Init /\ [][NextPermit]_vars

\* C39: a stored permit with a content column altered after it was issued
\* does not pass validation, for whatever message and at whatever time.
AlteredPermitFailsValidation ==
    permit_check.altered # {} => permit_check.valid # "Valid"

====
